---- MODULE Spec2Model ----
(***************************************************************************)
(* TAMV (TAMV_GUI.py): the CalibrateNozzles worker thread (run,            *)
(* analyzeFrame, calibrateTool, stop), the App handlers that drive it, the *)
(* machine behind printer.gCode/getStatus and the camera behind cap.read.  *)
(* Lengths are in thousandths of a millimetre, transform entries in tenths *)
(* of a millimetre, mpp in ten-thousandths of a millimetre per pixel.      *)
(***************************************************************************)
EXTENDS Integers, Sequences, FiniteSets, TLC

\* ---- bounds of the model ------------------------------------------------
MaxTools == 2
MaxCycles == 2
\* calibration_moves and detect_count are unbounded Python ints; they are
\* represented up to these values and saturate there
MaxMoves == 2
MaxDetect == 6
\* capacity of the queue of signals on their way to the GUI thread
MaxQueue == 1
\* App.calibrationResults is an unbounded list; no result is produced once it
\* holds this many
MaxResults == 3

\* ---- program constants --------------------------------------------------
camera_width == 640
camera_height == 480
position_iterations == 5
NoCircleLimit == 25
calibrationCoordinates ==
    << <<0, -500>>, <<294, -405>>, <<476, -155>>, <<476, 155>>, <<294, 405>>,
       <<0, 500>>, <<-294, 405>>, <<-476, 155>>, <<-476, -155>>, <<-294, -405>> >>
CONVERGING == 200
\* minCircularity in tenths: the default of line 71 and the loose value
default_minCircularity == 7
loose_minCircularity == 6
\* the thresholds <<th1, th2>> the worker is constructed with (lines 499,
\* 1699) and the ones App starts with (lines 1192-1193)
WorkerThresholds == <<1, 50>>
AppThresholds == <<5, 200>>

\* ---- values the environment supplies -------------------------------------
\* pixel centres the detector reports (after np.around / np.uint16)
Pixels == { <<320, 240>>, <<321, 241>> }
\* keypoint counts of one detector pass: none, one, several
KeypointCounts == {0, 1, 2}
Empty == << >>
\* results np.linalg.lstsq hands back for the sweeps of the model: 6 rows
\* (x^2, y^2, xy, x, y, 1) by 2 columns (X, Y)
TransformB == << <<0, 0>>, <<0, 0>>, <<0, 0>>, <<5, 0>>, <<0, 4>>, <<0, 0>> >>
TransformC == << <<0, 0>>, <<0, 10>>, <<0, 0>>, <<5, 0>>, <<0, 300>>, <<0, 0>> >>
Transforms == {TransformB, TransformC}
Inf == -1
\* slider positions App.changeThreshold can read (min_thslider, max_thslider)
SliderValues == { AppThresholds, <<10, 100>> }
Undef == -2

\* ---- arithmetic -----------------------------------------------------------
Min(a, b) == IF a < b THEN a ELSE b

\* np.around: n/d (d > 0) rounded to the nearest integer, ties to even
RoundHalfEven(n, d) ==
    LET q == n \div d
        r == n - q * d
    IN  IF 2 * r < d THEN q
        ELSE IF 2 * r > d THEN q + 1
        ELSE IF q % 2 = 0 THEN q ELSE q + 1

\* sqrt(n) rounded to the nearest integer
RoundSqrt(n) ==
    LET f == CHOOSE r \in 0..2000 : r * r <= n /\ n < (r + 1) * (r + 1)
    IN  IF n - f * f > f THEN f + 1 ELSE f

\* getDistance: the Euclidean distance rounded to 3 decimals, in thousandths
getDistance(x1, y1, x0, y0) ==
    RoundSqrt(((x1 - x0) * (x1 - x0) + (y1 - y0) * (y1 - y0)) * 1000000)

\* line 943: mpp = np.around(0.5 / getDistance(oldxy, xy), 4); numpy turns
\* the division by a zero distance into inf
MppOf(old, new) ==
    LET d == getDistance(old[1], old[2], new[1], new[2])
    IN  IF d = 0 THEN Inf ELSE RoundHalfEven(5000000, d)

\* normalize_coords: coords / dim - 0.5, as the numerator over 2 * dim
normalize_coords_unshifted(coords) == << 2 * coords[1], 2 * coords[2] >>
normalize_coords(coords) ==
    << 2 * coords[1] - camera_width, 2 * coords[2] - camera_height >>

\* common denominator of the feature vector v = [cx^2, cy^2, cx cy, cx, cy, 0]
VDen == (2 * camera_width) * (2 * camera_width) * 9
FeatureVector(coords) ==
    LET n == normalize_coords(coords)
        cx == n[1]
        cy == n[2]
        kx == VDen \div (2 * camera_width)
        ky == VDen \div (2 * camera_height)
    IN  << cx * cx * 9, cy * cy * 16, cx * cy * 12, cx * kx, cy * ky, 0 >>

Dot(T, v, col) ==
    T[1][col] * v[1] + T[2][col] * v[2] + T[3][col] * v[3]
      + T[4][col] * v[4] + T[5][col] * v[5] + T[6][col] * v[6]

\* lines 999-1003: offsets = -1 * (0.55 * T.T @ v), each rounded to 3
\* decimals; T is in tenths of a millimetre, so the factor is -55 over VDen
ConvergenceOffsets(T, coords) ==
    LET v == FeatureVector(coords)
    IN  << RoundHalfEven(-11 * Dot(T, v, 1), VDen \div 5),
           RoundHalfEven(-11 * Dot(T, v, 2), VDen \div 5) >>

\* ---- state -----------------------------------------------------------------
VARIABLES
    \* CalibrateNozzles fields shared with the GUI thread
    alignment, detection_on, display_crosshair, running,
    \* self.cap is open (TRUE) or released (FALSE)
    cap_open,
    \* calibrateTool fields
    transform_matrix, mpp, state, detect_count, space_coordinates,
    camera_coordinates, calibration_moves, xy, oldxy, offsetXY,
    \* the number of pairs in the self.transform_input of the last solve
    transform_input,
    \* analyzeFrame locals: nocircle, and whether toolCoordinates is bound
    nocircle, toolCoordinates,
    \* run locals: the place in run, the loop variables, self.cycles
    wpc, rep, tool, self_cycles,
    \* the machine: what printer.getStatus() reports
    status,
    \* App fields and widgets
    connected, num_tools, cycles, cp_coords, calibration_button, cp_button,
    gpc,
    \* signals emitted by the worker and not yet handled by the GUI thread
    signals,
    \* history: the session-level operations of the current session, and
    \* whether stop() was called during the session in progress
    log, stop_requested,
    \* the step just taken: its name, and the G-code it sent
    op, cmds,
    \* the message_update that analyzeFrame emitted in the step just taken,
    \* or "none"
    frame_message,
    \* the detector: the worker's loose and detector_changed flags, its
    \* detect_minCircularity and <<detect_th1, detect_th2>>, the
    \* <<thresholds, minCircularity>> self.detector was built with, and App's
    \* own <<detect_th1, detect_th2>> and detector_changed
    loose, detector_changed, detect_minCircularity, detect_th, detector,
    app_detect_th, app_detector_changed,
    \* whether every pair of camera_coordinates holds the same pixel
    samples_identical,
    \* history of the calibrateTool call in progress: the sum of the relative
    \* moves it has sent since state 0, and the number of frames analyzeFrame
    \* has returned to line 896 since the call began or since its last step
    displacement, detections,
    \* App.calibrationResults, whether the Analyze menu is enabled, the
    \* content of output.json ("none" before the first export), and the table
    \* the last call of App.stats printed ("none" before the first)
    calibrationResults, analysisMenu, output_json, stats_out,
    \* the call of a function of the arithmetic that is examined by itself:
    \* its name, its arguments and what it returned
    calc,
    \* whether the box of tool buttons is shown
    toolBox,
    \* whether the Detect ON box is checked
    detect_checked,
    \* CalibrateNozzles.average_location, in thousandths of a pixel. Nothing
    \* reads it (lines 865 and 899-910 hold every use), so only the
    \* specification that examines the averaging keeps it; elsewhere it
    \* stays at the value line 865 gives it
    average_location

worker_vars == << transform_matrix, mpp, state, detect_count, space_coordinates,
                  camera_coordinates, calibration_moves, xy, oldxy,
                  offsetXY, transform_input, samples_identical, displacement,
                  detections, nocircle, toolCoordinates, wpc, rep, tool,
                  self_cycles >>
flag_vars == << alignment, detection_on, display_crosshair, running >>
gui_vars == << connected, num_tools, cycles, cp_coords, calibration_button,
               cp_button, gpc >>
hist_vars == << log, stop_requested >>
det_vars == << loose, detector_changed, detect_minCircularity, detect_th,
               detector, app_detect_th, app_detector_changed >>
res_vars == << calibrationResults, analysisMenu, output_json, stats_out >>
vars == << flag_vars, cap_open, worker_vars, status, gui_vars, signals,
           hist_vars, op, cmds, frame_message, det_vars, res_vars, calc, toolBox, detect_checked, average_location >>

\* the places of run that belong to an alignment session (lines 609-680)
SessionPcs == { "while_running", "select", "cp_x", "cp_y", "cp_z", "wait_idle",
                "calibrateTool", "af1", "af2", "step", "g10",
                "unload", "end_x", "end_y", "end_z", "complete" }
InSession == wpc \in SessionPcs

\* ---- construction: App.__init__ / startVideo / CalibrateNozzles.__init__ ---
Constructed ==
    /\ alignment = FALSE /\ detection_on = FALSE
    /\ display_crosshair = FALSE /\ running = FALSE
    /\ cap_open = TRUE
    /\ transform_matrix = Empty /\ mpp = Undef /\ state = 0
    /\ detect_count = 0 /\ space_coordinates = 0 /\ camera_coordinates = 0
    /\ calibration_moves = 0
    /\ xy = <<0, 0>> /\ oldxy = <<0, 0>>
    /\ offsetXY = <<0, 0>>
    /\ transform_input = 0
    /\ nocircle = 0 /\ toolCoordinates = "unbound"
    /\ wpc = "top" /\ rep = 0 /\ tool = 0 /\ self_cycles = 1
    /\ status = "idle"
    /\ connected = FALSE /\ num_tools = 0 /\ cycles = 1
    /\ cp_coords = FALSE
    /\ calibration_button = FALSE /\ cp_button = FALSE /\ gpc = "idle"
    /\ signals = << >>
    /\ log = << >> /\ stop_requested = FALSE
    /\ op = "init" /\ cmds = << >> /\ frame_message = "none"
    /\ loose = FALSE /\ detector_changed = FALSE
    /\ detect_minCircularity = default_minCircularity
    /\ detect_th = WorkerThresholds
    /\ detector = << WorkerThresholds, default_minCircularity >>
    /\ app_detect_th = AppThresholds /\ app_detector_changed = FALSE
    /\ samples_identical = TRUE
    /\ displacement = <<0, 0>> /\ detections = 0
    /\ calibrationResults = << >> /\ analysisMenu = FALSE
    /\ output_json = <<"none">> /\ stats_out = <<"none">>
    /\ toolBox = FALSE
    /\ detect_checked = FALSE /\ average_location = <<0, 0>>

Init == Constructed /\ calc = <<"none">>

\* ---- the machine -----------------------------------------------------------
\* a move or a tool change is queued by gCode and the machine then runs it
IsMotion(c) == c[1] \in {"T", "G1", "REL", "ABS"}
StatusAfter(sent) ==
    IF \E i \in 1..Len(sent) : IsMotion(sent[i]) THEN "busy" ELSE status

\* the machine finishes what it was doing
MachineIdle ==
    /\ status = "busy"
    /\ status' = "idle"
    /\ op' = "other" /\ cmds' = << >>
    /\ UNCHANGED << flag_vars, cap_open, worker_vars, gui_vars, signals, hist_vars >>
    /\ frame_message' = "none"
    /\ UNCHANGED det_vars
    /\ UNCHANGED << res_vars, calc, toolBox, detect_checked, average_location >>

\* ---- the camera ------------------------------------------------------------
\* cap.read(): fails on a released device, may fail on an open one; every
\* caller reopens the device after a failed read
ReadResults == IF cap_open THEN {TRUE, FALSE} ELSE {FALSE}

ct_vars == << transform_matrix, mpp, state, detect_count, space_coordinates,
              camera_coordinates, calibration_moves, xy, oldxy,
              offsetXY, transform_input, samples_identical, displacement,
              detections >>
af_vars == << nocircle, toolCoordinates >>
loop_vars == << rep, tool, self_cycles >>

\* ---- the GUI thread ----------------------------------------------------------
\* App.connectToPrinter, the branch in which the Duet answers
connectToPrinter ==
    /\ gpc = "idle" /\ ~connected
    /\ connected' = TRUE
    /\ \E n \in 1..MaxTools : num_tools' = n
    /\ calibration_button' = FALSE /\ cp_button' = TRUE
    /\ op' = "other" /\ cmds' = << >>
    /\ UNCHANGED << flag_vars, cap_open, worker_vars, status, cycles, cp_coords,
                    gpc, signals, hist_vars >>
    /\ frame_message' = "none"
    /\ UNCHANGED det_vars
    \* line 1853
    /\ analysisMenu' = FALSE
    /\ UNCHANGED << calibrationResults, output_json, stats_out, calc, detect_checked, average_location >>
    \* line 1840
    /\ toolBox' = TRUE

\* detect_box.setChecked(False) (lines 1956, 2005, 2317): unchecking a
\* checked box emits stateChanged, and toggle_detect (line 1460) flips
\* display_crosshair and detection_on before setChecked returns; dc is the
\* value of display_crosshair at the call
CrosshairAfterUncheck(dc) == IF detect_checked THEN ~dc ELSE dc

\* App.readyToCalibrate, the part that writes to the worker, the buttons
\* and (lines 2033-2036) the Analyze menu; line 2017 sets detection_on
\* after the box was unchecked. Its caller says what display_crosshair
\* becomes: CrosshairAfterUncheck, unless the caller assigns it afterwards
readyToCalibrate ==
    /\ detect_checked' = FALSE /\ toolBox' = TRUE
    /\ detection_on' = FALSE /\ alignment' = FALSE
    /\ calibration_button' = TRUE /\ cp_button' = TRUE
    /\ analysisMenu' = (Len(calibrationResults) > 1)

\* App.controlledPoint: refused while the machine moves; the CP dialog is
\* accepted or cancelled
controlledPoint ==
    /\ gpc = "idle" /\ connected /\ cp_button
    /\ status = "idle"
    /\ cmds' = IF cp_coords THEN << <<"T", -1>>, <<"ABS", "CP">> >> ELSE << >>
    /\ status' = StatusAfter(cmds')
    /\ \E accepted \in BOOLEAN :
          IF accepted
          THEN /\ cp_coords' = TRUE
               /\ readyToCalibrate
               /\ display_crosshair' = CrosshairAfterUncheck(display_crosshair)
               /\ UNCHANGED running
          ELSE /\ calibration_button' = FALSE
               /\ UNCHANGED << flag_vars, cp_coords, cp_button, analysisMenu,
                               toolBox, detect_checked >>
    /\ op' = "other"
    /\ UNCHANGED << cap_open, worker_vars, connected, num_tools, cycles, gpc,
                    signals, hist_vars >>
    /\ frame_message' = "none"
    /\ UNCHANGED det_vars
    /\ UNCHANGED << calibrationResults, output_json, stats_out, calc, average_location >>

\* App.runCalibration up to line 2417: the buttons, the cycle count, then
\* display_crosshair and detection_on
runCalibration ==
    /\ gpc = "idle" /\ calibration_button
    /\ cp_button' = FALSE /\ calibration_button' = FALSE
    /\ \E c \in 1..MaxCycles : cycles' = c
    /\ display_crosshair' = TRUE /\ detection_on' = TRUE
    /\ gpc' = "runCalibration"
    /\ op' = "other" /\ cmds' = << >>
    /\ frame_message' = "none"
    \* lines 2395 and 2419: unchecking a checked loose_box calls toggleLoose
    /\ loose' = FALSE /\ detector_changed' = (detector_changed \/ loose)
    /\ UNCHANGED << alignment, running, cap_open, worker_vars, status, connected,
                    num_tools, cp_coords, signals, hist_vars,
                    detect_minCircularity, detect_th, detector, app_detect_th,
                    app_detector_changed >>
    /\ UNCHANGED << res_vars, calc, detect_checked, average_location >>
    \* line 2400
    /\ toolBox' = FALSE

\* App.runCalibration, lines 2418-2420: alignment is set last
runCalibrationAlign ==
    /\ gpc = "runCalibration"
    /\ alignment' = TRUE
    /\ gpc' = "idle"
    /\ op' = "other" /\ cmds' = << >>
    /\ UNCHANGED << detection_on, display_crosshair, running, cap_open,
                    worker_vars, status, connected, num_tools, cycles, cp_coords,
                    calibration_button, cp_button, signals, hist_vars >>
    /\ frame_message' = "none"
    /\ UNCHANGED det_vars
    /\ UNCHANGED << res_vars, calc, toolBox, detect_checked, average_location >>

\* CalibrateNozzles has no attribute named printer (__init__ sets none; the
\* machine is reached as self.parent().printer everywhere else)
HasPrinterAttribute == FALSE

\* App.stopVideo -> CalibrateNozzles.stop, run on the calling (GUI) thread.
\* self.printer.getCoords() raises AttributeError inside the try, and the
\* bare except swallows it
stop ==
    /\ gpc = "idle"
    /\ running' = FALSE /\ detection_on' = FALSE
    /\ IF HasPrinterAttribute /\ status = "idle"
       THEN /\ cmds' = << <<"T", -1>>, <<"G1", "XY">> >>
            /\ status' = "idle"
       ELSE /\ cmds' = << >>
            /\ UNCHANGED status
    /\ cap_open' = FALSE
    /\ stop_requested' = (stop_requested \/ InSession)
    /\ op' = "stop"
    /\ UNCHANGED << alignment, display_crosshair, worker_vars, gui_vars, signals,
                    log >>
    /\ frame_message' = "none"
    /\ UNCHANGED det_vars
    /\ UNCHANGED << res_vars, calc, toolBox, detect_checked, average_location >>

\* lines 1852 and 2389: the jog panel button is enabled once the machine is
\* connected, and runCalibration enables it again for the session
jogpanel_button == connected

\* the jog distances of the buttons of one axis (lines 103-108), in
\* thousandths of a millimetre
JogDistances == { -1000, 1000 }

\* App.displayJogPanel: if the machine reports idle the modal jog dialog
\* runs (exec_); in it a click on a jog button sends a relative move
\* (CPDialog, lines 117-122), and the dialog is closed
displayJogPanel ==
    /\ gpc = "idle" /\ jogpanel_button
    /\ status = "idle"
    /\ \E d \in JogDistances : cmds' = << <<"REL", d, 0>> >>
    /\ status' = StatusAfter(cmds')
    /\ op' = "jog" /\ frame_message' = "none"
    /\ UNCHANGED << flag_vars, cap_open, worker_vars, gui_vars, signals,
                    hist_vars, det_vars >>
    /\ UNCHANGED << res_vars, calc, toolBox, detect_checked, average_location >>

\* ---- the GUI thread: detection controls and camera settings ------------------
\* lines 1458-1460, 2005-2007, 2318, 2401: the Detect box is shown except
\* from runCalibration to the next readyToCalibrate or disconnect; while a
\* machine is connected it is shown and hidden together with the tool box
\* (lines 2030, 2400)
detect_box == toolBox \/ ~connected
\* lines 1521, 1534, 2394: the Loose box can be used while detection is on
loose_box == detection_on
\* lines 1525-1526, 1538-1539: the threshold button is shown while detection
\* is on
set_thres_button == detection_on

\* App.toggle_detect: the Detect box flips display_crosshair and detection_on
toggle_detect ==
    /\ gpc = "idle" /\ detect_box
    /\ detect_checked' = ~detect_checked
    /\ display_crosshair' = ~display_crosshair
    /\ detection_on' = ~detection_on
    /\ op' = "other" /\ cmds' = << >> /\ frame_message' = "none"
    /\ UNCHANGED << alignment, running, cap_open, worker_vars, status, gui_vars,
                    signals, hist_vars, det_vars >>
    /\ UNCHANGED << res_vars, calc, toolBox, average_location >>

\* App.toggle_loose -> CalibrateNozzles.toggleLoose, line 562: the flag
\* detector_changed is set first
toggleLoose ==
    /\ gpc = "idle" /\ loose_box
    /\ detector_changed' = TRUE
    /\ gpc' = "toggleLoose"
    /\ op' = "other" /\ cmds' = << >> /\ frame_message' = "none"
    /\ UNCHANGED << flag_vars, cap_open, worker_vars, status, connected,
                    num_tools, cycles, cp_coords, calibration_button, cp_button,
                    signals, hist_vars, loose, detect_minCircularity, detect_th,
                    detector, app_detect_th, app_detector_changed >>
    /\ UNCHANGED << res_vars, calc, toolBox, detect_checked, average_location >>

\* CalibrateNozzles.toggleLoose, lines 563-565: then loose is flipped
toggleLooseFlip ==
    /\ gpc = "toggleLoose"
    /\ loose' = ~loose
    /\ gpc' = "idle"
    /\ op' = "other" /\ cmds' = << >> /\ frame_message' = "none"
    /\ UNCHANGED << flag_vars, cap_open, worker_vars, status, connected,
                    num_tools, cycles, cp_coords, calibration_button, cp_button,
                    signals, hist_vars, detector_changed, detect_minCircularity,
                    detect_th, detector, app_detect_th, app_detector_changed >>
    /\ UNCHANGED << res_vars, calc, toolBox, detect_checked, average_location >>

\* App.changeThreshold: the slider values go to App.detect_th1/detect_th2
\* and App.detector_changed; no field of the worker is written
changeThreshold ==
    /\ gpc = "idle" /\ set_thres_button
    /\ \E v \in SliderValues :
          IF app_detect_th # v
          THEN app_detect_th' = v /\ app_detector_changed' = TRUE
          ELSE UNCHANGED << app_detect_th, app_detector_changed >>
    /\ op' = "changeThreshold" /\ cmds' = << >> /\ frame_message' = "none"
    /\ UNCHANGED << flag_vars, cap_open, worker_vars, status, gui_vars, signals,
                    hist_vars, loose, detector_changed, detect_minCircularity,
                    detect_th, detector >>
    /\ UNCHANGED << res_vars, calc, toolBox, detect_checked, average_location >>

\* a GUI step, named name, that changes gpc only
GuiGoes(to, name) ==
    /\ gpc' = to
    /\ op' = name /\ cmds' = << >> /\ frame_message' = "none"
    /\ UNCHANGED << flag_vars, cap_open, worker_vars, status, connected,
                    num_tools, cycles, cp_coords, calibration_button, cp_button,
                    signals, hist_vars, det_vars >>
    /\ UNCHANGED << res_vars, calc, toolBox, detect_checked, average_location >>

\* App.displayCameraSettings: the camera settings dialog runs (exec_)
displayCameraSettings == gpc = "idle" /\ GuiGoes("camera_dialog", "other")
\* the dialog is closed
closeCameraSettings == gpc = "camera_dialog" /\ GuiGoes("idle", "other")

\* CameraSettingsDialog.changeBrightness (Contrast, Saturation, Hue) ->
\* CalibrateNozzles.setProperty, on the GUI thread: cap.set is entered
setProperty == gpc = "camera_dialog" /\ GuiGoes("cap_set", "setProperty")
\* cap.set returns
setPropertyReturns == gpc = "cap_set" /\ GuiGoes("camera_dialog", "setProperty_done")

\* ---- the result collection: App.calibrationResults ----------------------------
\* A result is the dict of lines 1039-1045. Its values are strings: 'tool'
\* and 'cycle' hold str(int), 'X' and 'Y' hold "{:.3f}" of the offset, 'mpp'
\* holds str(mpp). A field of the model holds the number its string denotes:
\* X and Y in thousandths, mpp in ten-thousandths.
RECURSIVE SumSeq(_)
SumSeq(xs) == IF xs = << >> THEN 0 ELSE Head(xs) + SumSeq(Tail(xs))
RECURSIVE SumSquares(_)
SumSquares(xs) == IF xs = << >> THEN 0 ELSE Head(xs) * Head(xs) + SumSquares(Tail(xs))
MaxSeq(xs) == CHOOSE m \in { xs[i] : i \in 1..Len(xs) } : \A i \in 1..Len(xs) : xs[i] <= m
MinSeq(xs) == CHOOSE m \in { xs[i] : i \in 1..Len(xs) } : \A i \in 1..Len(xs) : xs[i] >= m

\* line 2212: the results of tool index, in the order of the list, and
\* lines 2213-2214 their X or Y values
HasTool(r, index) == r.tool = index
ToolResults(results, index) ==
    LET Test(r) == HasTool(r, index) IN SelectSeq(results, Test)
AxisValues(lines, axis) ==
    [ i \in 1..Len(lines) |-> IF axis = "X" THEN lines[i].X ELSE lines[i].Y ]

\* np.average, printed with {0:7.3f}: the mean to the nearest thousandth.
\* Where the exact mean lies half-way, the digit printed depends on the
\* binary value of the double: both neighbours are possible
Averages(xs) ==
    LET n == Len(xs)
        q == SumSeq(xs) \div n
        r == SumSeq(xs) - q * n
    IN  IF 2 * r < n THEN {q} ELSE IF 2 * r > n THEN {q + 1} ELSE {q, q + 1}

\* x_max - x_min
RangeFromZero(xs) == MaxSeq(xs)
Range(xs) == MaxSeq(xs) - MinSeq(xs)

\* np.std (the population standard deviation sqrt(n sum(x^2) - sum(x)^2) / n),
\* to the nearest thousandth, both neighbours where it lies half-way
StdDevs(xs) ==
    LET n == Len(xs)
        Q == n * SumSquares(xs) - SumSeq(xs) * SumSeq(xs)
    IN  { r \in 0..(MaxSeq(xs) - MinSeq(xs)) :
            /\ (r = 0 \/ (2 * r - 1) * (2 * r - 1) * n * n <= 4 * Q)
            /\ 4 * Q <= (2 * r + 1) * (2 * r + 1) * n * n }

\* lines 2215-2229: what one axis of one row of the table shows
AxisStats(xs) ==
    { [avg |-> a, max |-> MaxSeq(xs), min |-> MinSeq(xs), std |-> d,
       ran |-> Range(xs)] : a \in Averages(xs), d \in StdDevs(xs) }

\* App.stats: the tables the call can print, one row per tool index below
\* num_tools; np.max of the empty list of a tool without results raises
\* ValueError
NoResultsOf(results, n_tools) ==
    \E index \in 0..(n_tools - 1) : ToolResults(results, index) = << >>
stats(results, n_tools) ==
    IF NoResultsOf(results, n_tools)
    THEN { <<"ValueError">> }
    ELSE LET X(index) == AxisValues(ToolResults(results, index), "X")
             Y(index) == AxisValues(ToolResults(results, index), "Y")
             Rows(index) == { [x |-> a, y |-> b] :
                                a \in AxisStats(X(index)), b \in AxisStats(Y(index)) }
         IN  { <<"table", t>> :
                 t \in { u \in [ 0..(n_tools - 1) ->
                                   UNION { Rows(i) : i \in 0..(n_tools - 1) } ] :
                           \A index \in 0..(n_tools - 1) : u[index] \in Rows(index) } }

\* json.dump of the list (line 2195): an array with one object per result,
\* each object its key/value pairs in the order the dict was built in
JsonObjectNoMpp(r) ==
    << <<"tool", r.tool>>, <<"cycle", r.cycle>>, <<"X", r.X>>, <<"Y", r.Y>> >>
JsonObject(r) ==
    << <<"tool", r.tool>>, <<"cycle", r.cycle>>, <<"mpp", r.mpp>>,
       <<"X", r.X>>, <<"Y", r.Y>> >>
JsonDump(results) == [ i \in 1..Len(results) |-> JsonObject(results[i]) ]

\* json.load: the list of dicts an array of objects denotes (a key that
\* occurs twice keeps its last value, a missing key is missing)
JsonValue(object, key) ==
    LET at == { i \in 1..Len(object) : object[i][1] = key }
    IN  IF at = {} THEN "missing"
        ELSE object[CHOOSE i \in at : \A j \in at : j <= i][2]
JsonLoad(text) ==
    [ i \in 1..Len(text) |->
        [ tool |-> JsonValue(text[i], "tool"), cycle |-> JsonValue(text[i], "cycle"),
          mpp |-> JsonValue(text[i], "mpp"), X |-> JsonValue(text[i], "X"),
          Y |-> JsonValue(text[i], "Y") ] ]

\* line 2503: list.append
PrependResult(results, result) == << result >> \o results
AppendResult(results, result) == Append(results, result)

\* App.addCalibrationResult, the slot of result_update. An event of
\* ResultsSpec carries the dict of lines 1039-1045; an event of Spec, which
\* does not represent the offsets, carries the tool and the cycle only, and
\* the list, which would grow with every session of Spec, is left as it is
addCalibrationResult ==
    /\ gpc = "idle" /\ signals # << >> /\ Head(signals)[1] = "result"
    /\ signals' = Tail(signals)
    /\ calibrationResults' =
          IF Len(Head(signals)) = 2
          THEN AppendResult(calibrationResults, Head(signals)[2])
          ELSE calibrationResults
    /\ op' = "addCalibrationResult" /\ cmds' = << >>
    /\ UNCHANGED << flag_vars, cap_open, worker_vars, status, gui_vars, hist_vars >>
    /\ frame_message' = "none"
    /\ UNCHANGED det_vars
    /\ UNCHANGED << analysisMenu, output_json, stats_out, calc, toolBox, detect_checked, average_location >>

\* lines 2055-2068: with 'Apply offsets and save' one G10 and one M500 per
\* result, in the order of the list
RECURSIVE G10Codes(_)
G10Codes(results) ==
    IF results = << >> THEN << >>
    ELSE << <<"G10", Head(results).tool, Head(results).X, Head(results).Y>>,
            <<"M500">> >> \o G10Codes(Tail(results))

\* App.analyzeResults() as applyCalibration calls it (lines 2079-2088):
\* nothing without results, App.stats otherwise
analyzeResultsStats ==
    IF Len(calibrationResults) < 1 THEN UNCHANGED stats_out
    ELSE stats_out' \in stats(calibrationResults, num_tools)

\* App.applyCalibration, the slot of calibration_complete
applyCalibration ==
    /\ gpc = "idle" /\ signals # << >> /\ Head(signals)[1] = "complete"
    /\ signals' = Tail(signals)
    /\ readyToCalibrate
    \* line 2075, after the box was unchecked in readyToCalibrate
    /\ display_crosshair' = FALSE
    /\ \E yes_button \in BOOLEAN :
          cmds' = IF yes_button THEN G10Codes(calibrationResults) ELSE << >>
    /\ analyzeResultsStats
    /\ op' = "applyCalibration"
    /\ UNCHANGED << running, cap_open, worker_vars, status, connected, num_tools,
                    cycles, cp_coords, gpc, hist_vars >>
    /\ frame_message' = "none"
    /\ UNCHANGED det_vars
    /\ UNCHANGED << calibrationResults, output_json, calc, average_location >>

\* App.parseData: per tool index below max(tool) + 1 the X and the Y values
\* less their mean rounded to 3 decimals (lines 2252-2275); np.max of an
\* empty list raises ValueError (lines 2265-2266), and then nothing is
\* returned. It builds new lists and returns them; rawData is read only
parseData(rawData) ==
    LET tools == { rawData[i].tool : i \in 1..Len(rawData) }
        numTools == (CHOOSE t \in tools : \A u \in tools : u <= t) + 1
        Centred(xs) == { [ i \in 1..Len(xs) |-> xs[i] - m ] : m \in Averages(xs) }
    IN  IF NoResultsOf(rawData, numTools)
        THEN { }
        ELSE { t \in [ 0..(numTools - 1) ->
                         UNION { Centred(AxisValues(ToolResults(rawData, i), a)) \X
                                 Centred(AxisValues(ToolResults(rawData, i), b)) :
                                   i \in 0..(numTools - 1), a \in {"X"}, b \in {"Y"} } ] :
                 \A i \in 0..(numTools - 1) :
                    /\ t[i][1] \in Centred(AxisValues(ToolResults(rawData, i), "X"))
                    /\ t[i][2] \in Centred(AxisValues(ToolResults(rawData, i), "Y")) }

\* App.analyzeResults(graph=True) and App.analyzeResults(export=True), the
\* actions of the Analyze menu: parseData, then the plots or json.dump into
\* output.json; an exception of open or json.dump is caught (line 2196) and
\* leaves the file as it was
analyzeResults ==
    /\ gpc = "idle" /\ analysisMenu
    /\ Len(calibrationResults) >= 1
    /\ IF parseData(calibrationResults) = { }
       THEN UNCHANGED output_json /\ op' = "ValueError"
       ELSE \E export \in BOOLEAN, written \in BOOLEAN :
              IF export /\ written
              THEN output_json' = <<"file", JsonDump(calibrationResults)>> /\ op' = "export"
              ELSE /\ UNCHANGED output_json
                   /\ op' = IF export THEN "export_failed" ELSE "graph"
    /\ cmds' = << >> /\ frame_message' = "none"
    /\ UNCHANGED << flag_vars, cap_open, worker_vars, status, gui_vars, signals,
                    hist_vars, det_vars, calibrationResults, analysisMenu,
                    stats_out, calc, toolBox, detect_checked, average_location >>

\* App.updateStatusbar, the slot of detection_error
updateStatusbar ==
    /\ gpc = "idle" /\ signals # << >> /\ Head(signals)[1] = "error"
    /\ signals' = Tail(signals)
    /\ op' = "other" /\ cmds' = << >>
    /\ UNCHANGED << flag_vars, cap_open, worker_vars, status, gui_vars, hist_vars >>
    /\ frame_message' = "none"
    /\ UNCHANGED det_vars
    /\ UNCHANGED << res_vars, calc, toolBox, detect_checked, average_location >>

\* ---- the worker thread: CalibrateNozzles.run -----------------------------------
Emit(sig) == Len(signals) < MaxQueue /\ signals' = Append(signals, sig)

\* lines 793-795 (and 610-612, 652-654, 691-693, 701-703): the minimum
\* circularity that goes with the loose flag
Circularity(l) == IF l THEN loose_minCircularity ELSE default_minCircularity

\* createDetector: the thresholds and minCircularity the detector is built with
createDetector(th, circ) == << th, circ >>

\* lines 691-693: detect_minCircularity is refreshed from the loose flag
RefreshCircularity ==
    /\ detect_minCircularity' = Circularity(loose)
    /\ UNCHANGED << loose, detect_th, app_detect_th, app_detector_changed >>

\* lines 792-798 (and 610-615, 652-657, 701-706): detect_minCircularity is
\* refreshed, and the detector rebuilt if detector_changed is set
RuntimeChanges ==
    /\ RefreshCircularity
    /\ IF detector_changed
       THEN /\ detector' = createDetector(detect_th, detect_minCircularity')
            /\ detector_changed' = FALSE
       ELSE UNCHANGED << detector, detector_changed >>

\* The fields that lines 863-894 initialise at the start of every
\* calibrateTool call are read by nothing outside calibrateTool; the locals
\* of analyzeFrame and the loop variables of run end with their frame or
\* loop. The model returns all of them to their initial values as soon as
\* the call, the frame or the loop is left, so that a value nothing can read
\* does not distinguish two states.
CalibrateToolLeft ==
    /\ state' = 0 /\ detect_count' = 0
    /\ xy' = <<0, 0>> /\ oldxy' = <<0, 0>>
    /\ space_coordinates' = 0 /\ camera_coordinates' = 0
    /\ calibration_moves' = 0 /\ offsetXY' = <<0, 0>>
    /\ samples_identical' = TRUE
    /\ displacement' = <<0, 0>> /\ detections' = 0
AnalyzeFrameLeft == nocircle' = 0 /\ toolCoordinates' = "unbound"
LoopsLeft == rep' = 0 /\ tool' = 0

\* lines 682-685: the four flags after an exception
UnwindFlagsRunningLeft ==
    /\ alignment' = FALSE /\ detection_on' = FALSE
    /\ display_crosshair' = FALSE /\ UNCHANGED running
UnwindFlags ==
    /\ alignment' = FALSE /\ detection_on' = FALSE
    /\ display_crosshair' = FALSE /\ running' = FALSE

\* the names of the steps in which an exception reaches line 681: a failed
\* gCode call, a frame that could not be published, anything else
AbortOps == { "motion_failure", "frame_failure", "exception" }

\* lines 681-687: the except clause of the alignment branch, reached by the
\* exception that the step named cause raised
SessionAbort(cause) ==
    /\ UnwindFlags
    /\ Emit(<<"error">>)
    /\ cap_open' = FALSE
    /\ wpc' = "top"
    /\ CalibrateToolLeft /\ AnalyzeFrameLeft /\ LoopsLeft
    /\ stop_requested' = FALSE
    /\ op' = cause /\ cmds' = << >>
    /\ UNCHANGED << transform_matrix, mpp, transform_input, self_cycles, status,
                    gui_vars, log >>

SessionException == SessionAbort("exception")

\* lines 711-714: the except clause of the detect-only branch
DetectException ==
    /\ running' = FALSE
    /\ Emit(<<"error">>)
    /\ cap_open' = FALSE
    /\ wpc' = "top"
    /\ AnalyzeFrameLeft
    /\ op' = "exception" /\ cmds' = << >>
    /\ UNCHANGED << alignment, detection_on, display_crosshair, ct_vars,
                    loop_vars, status, gui_vars, hist_vars >>

\* lines 606-607 and 715-744: the test of detection_on, and one pass of the
\* frame loop that runs while detection is off
RunTop ==
    /\ wpc = "top"
    /\ IF detection_on
       THEN /\ wpc' = "branch"
            /\ op' = "run"
            /\ UNCHANGED cap_open
       ELSE /\ cap_open' = TRUE
            /\ wpc' = "top"
            /\ op' = "other"
    /\ cmds' = << >>
    /\ UNCHANGED << flag_vars, ct_vars, af_vars, loop_vars, status, gui_vars,
                    signals, hist_vars >>
    /\ frame_message' = "none"
    /\ UNCHANGED det_vars
    /\ UNCHANGED << res_vars, calc, toolBox, detect_checked, average_location >>

\* lines 608-616 and 688-694: the test of alignment, then _running = True
RunBranch ==
    /\ wpc = "branch"
    /\ running' = TRUE
    /\ IF alignment
       THEN /\ wpc' = "while_running"
            /\ log' = << >> /\ stop_requested' = FALSE
            /\ op' = "session_begin"
            /\ RuntimeChanges
       ELSE /\ wpc' = "det_loop"
            /\ UNCHANGED << log, stop_requested >>
            /\ op' = "detect_begin"
            /\ RefreshCircularity
            /\ UNCHANGED << detector, detector_changed >>
    /\ cmds' = << >>
    /\ UNCHANGED << alignment, detection_on, display_crosshair, cap_open, ct_vars,
                    af_vars, loop_vars, status, gui_vars, signals >>
    /\ frame_message' = "none"
    /\ UNCHANGED << res_vars, calc, toolBox, detect_checked, average_location >>

\* lines 617-620 and 665: while self._running, and the start of the two loops
WhileRunning ==
    /\ wpc = "while_running"
    /\ IF running
       THEN /\ self_cycles' = cycles /\ rep' = 0 /\ tool' = 0
            /\ IF cycles > 0 /\ num_tools > 0
               THEN wpc' = "select" /\ UNCHANGED running
               ELSE wpc' = "while_running" /\ running' = FALSE
       ELSE /\ wpc' = "unload"
            /\ UNCHANGED << loop_vars, running >>
    /\ op' = "while_running" /\ cmds' = << >>
    /\ UNCHANGED << alignment, detection_on, display_crosshair, cap_open, ct_vars,
                    af_vars, status, gui_vars, signals, hist_vars >>
    /\ frame_message' = "none"
    /\ UNCHANGED det_vars
    /\ UNCHANGED << res_vars, calc, toolBox, detect_checked, average_location >>

\* printer.gCode raised (the request to the machine failed); the exception
\* reaches line 681
MotionFailure == SessionAbort("motion_failure")

\* lines 621-626: load the next tool
SelectTool ==
    /\ wpc = "select"
    /\ \/ /\ cmds' = << <<"T", tool>> >>
          /\ status' = StatusAfter(cmds')
          /\ log' = Append(log, <<"select", rep, tool>>)
          /\ wpc' = "cp_x"
          /\ op' = "select"
          /\ UNCHANGED << flag_vars, cap_open, ct_vars, af_vars, loop_vars,
                          gui_vars, signals, stop_requested >>
       \/ MotionFailure
    /\ frame_message' = "none"
    /\ UNCHANGED det_vars
    /\ UNCHANGED << res_vars, calc, toolBox, detect_checked, average_location >>

NextAxis(pc) == CASE pc = "cp_x" -> "cp_y" [] pc = "cp_y" -> "cp_z"
                  [] pc = "cp_z" -> "wait_idle"
                  [] pc = "end_x" -> "end_y" [] pc = "end_y" -> "end_z"
                  [] pc = "end_z" -> "complete"

\* lines 628-630: one of the three moves to the controlled point; indexing
\* an empty cp_coords raises KeyError
MoveToCP ==
    /\ wpc \in {"cp_x", "cp_y", "cp_z"}
    /\ IF cp_coords
       THEN \/ /\ cmds' = << <<"G1", wpc>> >>
               /\ status' = StatusAfter(cmds')
               /\ log' = Append(log, <<wpc, rep, tool>>)
               /\ wpc' = NextAxis(wpc)
               /\ op' = "move_cp"
               /\ UNCHANGED << flag_vars, cap_open, ct_vars, af_vars, loop_vars,
                               gui_vars, signals, stop_requested >>
            \/ MotionFailure
       ELSE SessionException
    /\ frame_message' = "none"
    /\ UNCHANGED det_vars
    /\ UNCHANGED << res_vars, calc, toolBox, detect_checked, average_location >>

\* lines 632-657: poll getStatus; while the machine is not idle read and
\* publish a frame, reopening the camera when the read fails
WaitIdle ==
    /\ wpc = "wait_idle"
    /\ IF status # "idle"
       THEN \E ret \in ReadResults, again \in BOOLEAN :
              IF ret \/ again
              THEN /\ cap_open' = TRUE
                   /\ wpc' = "wait_idle"
                   /\ op' = IF ret THEN "wait_frame" ELSE "read_failed"
                   /\ cmds' = << >> /\ frame_message' = "none"
                   /\ UNCHANGED << flag_vars, ct_vars, af_vars, loop_vars,
                                   status, gui_vars, signals, hist_vars, det_vars >>
              \* lines 645-647: the second read failed as well, cv_img is
              \* None and change_pixmap_signal (np.ndarray) refuses it
              ELSE /\ SessionAbort("frame_failure")
                   /\ frame_message' = "none" /\ UNCHANGED det_vars
       ELSE /\ wpc' = "calibrateTool"
            /\ log' = Append(log, <<"idle", rep, tool>>)
            /\ op' = "idle_seen"
            /\ RuntimeChanges
            /\ cmds' = << >> /\ frame_message' = "none"
            /\ UNCHANGED << flag_vars, cap_open, ct_vars, af_vars, loop_vars,
                            status, gui_vars, signals, stop_requested >>
    /\ UNCHANGED << res_vars, calc, toolBox, detect_checked, average_location >>

\* lines 875 and 885-888: the state calibrateTool starts in
InitialStateAlwaysZero(T) == 0
InitialState(T) == IF T # Empty THEN CONVERGING ELSE 0

\* lines 861-894: the start of calibrateTool; an existing transform matrix
\* sends it straight to state 200
calibrateToolInit ==
    /\ wpc = "calibrateTool"
    /\ state' = InitialState(transform_matrix)
    /\ detect_count' = 0
    /\ xy' = <<0, 0>> /\ oldxy' = <<0, 0>>
    /\ space_coordinates' = 0 /\ camera_coordinates' = 0
    /\ calibration_moves' = 0
    /\ samples_identical' = TRUE
    /\ displacement' = <<0, 0>> /\ detections' = 0
    /\ nocircle' = 0 /\ toolCoordinates' = "unbound"
    /\ wpc' = "af1"
    /\ log' = Append(log, <<"calibrate", rep, tool>>)
    /\ op' = "calibrateTool" /\ cmds' = << >>
    /\ UNCHANGED << flag_vars, cap_open, transform_matrix, mpp,
                    offsetXY, transform_input, loop_vars, status, gui_vars, signals,
                    stop_requested >>
    /\ frame_message' = "none"
    /\ UNCHANGED det_vars
    /\ UNCHANGED << res_vars, calc, toolBox, detect_checked >>
    \* line 865
    /\ average_location' = <<0, 0>>

\* ---- analyzeFrame ---------------------------------------------------------------
\* lines 764-771: the read failed; reopen the device and try again
FrameReadFailed ==
    /\ cap_open' = TRUE
    /\ cmds' = << >>
    /\ UNCHANGED << flag_vars, worker_vars, status, gui_vars, signals, hist_vars >>
    /\ frame_message' = "none"
    /\ UNCHANGED det_vars

\* lines 817-837: the frame is dropped and the loop goes on; nc is the new
\* value of nocircle, tc the new binding of toolCoordinates
FrameDropped(nc, tc) ==
    /\ nocircle' = nc /\ toolCoordinates' = tc
    /\ cmds' = << >>
    /\ UNCHANGED << flag_vars, cap_open, ct_vars, wpc, loop_vars, status,
                    gui_vars, signals, hist_vars >>

\* lines 838-857 and, in calibrateTool, 897-905 and 912: exactly one
\* keypoint; the loop breaks and analyzeFrame returns to its caller. The
\* self.xy of line 897 only feeds average_location, which nothing reads, and
\* line 912 overwrites it before any other use: the model keeps the self.xy
\* of line 912 only
FrameReturned(p, tc) ==
    /\ nocircle' = 0
    /\ CASE wpc = "af1" ->
              /\ UNCHANGED xy
              /\ detect_count' = Min(detect_count + 1, MaxDetect)
              /\ detections' = detections + 1
              /\ wpc' = IF detect_count' >= position_iterations THEN "af2" ELSE "af1"
              /\ toolCoordinates' = "unbound"
         [] wpc = "af2" ->
              /\ xy' = p
              /\ wpc' = "step"
              /\ toolCoordinates' = tc
              /\ UNCHANGED << detect_count, detections >>
         [] wpc = "af_det" ->
              /\ wpc' = "det_loop"
              /\ toolCoordinates' = "unbound"
              /\ UNCHANGED << xy, detect_count, detections >>
    /\ cmds' = << >>
    /\ UNCHANGED << flag_vars, cap_open, transform_matrix, mpp, state,
                    space_coordinates, camera_coordinates, calibration_moves,
                    oldxy, offsetXY, transform_input, samples_identical,
                    displacement, loop_vars, status, gui_vars, signals,
                    hist_vars >>

\* line 817: the no-detection counter has passed its limit
AdvisoryDueEarly(n) == n >= NoCircleLimit
AdvisoryDue(n) == n > NoCircleLimit

\* line 830: more than one keypoint
TooManyCirclesOffByOne(k) == k > 2
TooManyCircles(k) == k > 1

\* the name of a step that examined a frame with k keypoints (line 821)
FrameOp(k) == IF k = 0 THEN "frame0" ELSE IF k = 1 THEN "frame1" ELSE "frameN"

\* lines 823 and 831: the message is emitted only if more than 25 ms have
\* passed since analyzeFrame was entered
GatedWrongText(gate, text) == IF gate THEN "No circles found." ELSE "none"
Gated(gate, text) == IF gate THEN text ELSE "none"

\* lines 772-777: printer.getCoords() is called, and toolCoordinates bound,
\* only if alignment is set
QueriesPositionAlways(a) == TRUE
QueriesPosition(a) == a

\* lines 761-859: one pass of the loop of analyzeFrame, or its exit when
\* detection_on is off. k is the number of keypoints of the frame, gate the
\* outcome of the 25 ms test
analyzeFrame ==
    /\ wpc \in {"af1", "af2", "af_det"}
    /\ IF ~detection_on
       THEN /\ IF wpc = "af_det"
               THEN /\ wpc' = "det_loop"
                    /\ AnalyzeFrameLeft
                    /\ op' = "other" /\ cmds' = << >>
                    /\ UNCHANGED << flag_vars, cap_open, ct_vars, loop_vars,
                                    status, gui_vars, signals, hist_vars >>
               ELSE SessionException
            /\ frame_message' = "none" /\ UNCHANGED det_vars
       ELSE \E ret \in ReadResults :
            IF ~ret THEN FrameReadFailed /\ op' = "read_failed"
            ELSE /\ RuntimeChanges
                 /\ LET tc == IF QueriesPosition(alignment) THEN "bound"
                              ELSE toolCoordinates
                    IN  \E k \in KeypointCounts, gate \in BOOLEAN :
                          IF AdvisoryDue(nocircle)
                            THEN /\ FrameDropped(0, tc) /\ op' = FrameOp(k)
                                 /\ frame_message' = "Error in detecting nozzle."
                          ELSE IF k = 0
                            THEN /\ FrameDropped(IF gate THEN nocircle + 1 ELSE nocircle, tc)
                                 /\ op' = FrameOp(k)
                                 /\ frame_message' = Gated(gate, "No circles found.")
                          ELSE IF TooManyCircles(k)
                            THEN /\ FrameDropped(nocircle, tc) /\ op' = FrameOp(k)
                                 /\ frame_message' = Gated(gate, "Too many circles found.")
                          ELSE IF tc = "unbound"
                            THEN /\ IF wpc = "af_det" THEN DetectException
                                    ELSE SessionException
                                 /\ frame_message' = "ts"
                          ELSE /\ \E p \in Pixels : FrameReturned(p, tc)
                               /\ op' = FrameOp(k)
                               /\ frame_message' = "ts"
    /\ UNCHANGED << res_vars, calc, toolBox, detect_checked, average_location >>

\* lines 697-710: the loop of the detect-only branch
detectLoop ==
    /\ wpc = "det_loop"
    /\ IF running /\ detection_on
       THEN /\ wpc' = "af_det"
            /\ nocircle' = 0 /\ toolCoordinates' = "unbound"
            /\ RuntimeChanges
       ELSE /\ wpc' = "top"
            /\ UNCHANGED << af_vars, det_vars >>
    /\ op' = "other" /\ cmds' = << >>
    /\ UNCHANGED << flag_vars, cap_open, ct_vars, loop_vars, status, gui_vars,
                    signals, hist_vars >>
    /\ frame_message' = "none"
    /\ UNCHANGED << res_vars, calc, toolBox, detect_checked, average_location >>

\* ---- calibrateTool: the step taken on a confirmed detection ---------------------
RelMove(d) == <<"REL", d[1], d[2]>>
\* lines 953-954: the offset of the previous sweep move, negated
NegXOnly(d) == << -d[1], d[2] >>
Neg(d) == << -d[1], -d[2] >>

\* where the relative moves of sent (G91 G1 X.. Y.. G90) take a carriage
\* that was displaced by d
RECURSIVE Displaced(_, _)
Displaced(d, sent) ==
    IF sent = << >> THEN d
    ELSE Displaced(IF Head(sent)[1] = "REL"
                   THEN << d[1] + Head(sent)[2], d[2] + Head(sent)[3] >>
                   ELSE d, Tail(sent))

\* the results np.linalg.lstsq can hand back for a list of calibration
\* points, here its length and whether all its pixels are the same: lstsq
\* returns a (minimum-norm) solution for rank-deficient input as well, and
\* lines 1058-1068 look at neither the rank nor the residuals
least_square_mapping(calibration_points) == Transforms

\* lines 923-928: the lists are emptied (n = 0) and the first sample appended
FirstSampleDropped(n) == n
FirstSample(n) == n + 1

\* lines 915-935: state 0, the first sample and the first sweep move
cameraCalInit ==
    /\ wpc = "step" /\ state = 0
    /\ oldxy' = xy
    /\ space_coordinates' = FirstSample(0) /\ camera_coordinates' = FirstSample(0)
    /\ samples_identical' = TRUE
    /\ offsetXY' = calibrationCoordinates[1]
    /\ cmds' = << RelMove(offsetXY') >>
    /\ displacement' = Displaced(<<0, 0>>, cmds') /\ detections' = 0
    /\ status' = StatusAfter(cmds')
    /\ state' = 1
    /\ wpc' = "af1" /\ nocircle' = 0 /\ toolCoordinates' = "unbound"
    /\ op' = "step"
    /\ UNCHANGED << flag_vars, cap_open, transform_matrix, mpp, detect_count,
                    calibration_moves, xy, transform_input, loop_vars,
                    gui_vars, signals, hist_vars >>
    /\ frame_message' = "none"
    /\ UNCHANGED det_vars
    /\ UNCHANGED << res_vars, calc, toolBox, detect_checked, average_location >>

\* the pixel appended now equals every pixel appended before (oldxy is the
\* pixel of the previous sample)
AllIdentical == samples_identical /\ xy = oldxy

\* lines 942-943: mpp is computed in state 1, after the first sweep move
FirstSweepStepNever(s) == FALSE
FirstSweepStep(s) == s = 1

\* lines 937-960: states 1..9, one more sample, the move back and the next
\* sweep move; mpp on the first of them
cameraCalSweep ==
    /\ wpc = "step" /\ state >= 1 /\ state < Len(calibrationCoordinates)
    /\ mpp' = IF FirstSweepStep(state) THEN MppOf(oldxy, xy) ELSE mpp
    /\ oldxy' = xy
    /\ space_coordinates' = space_coordinates + 1
    /\ camera_coordinates' = camera_coordinates + 1
    /\ samples_identical' = AllIdentical
    /\ offsetXY' = calibrationCoordinates[state + 1]
    /\ cmds' = << RelMove(Neg(offsetXY)), RelMove(offsetXY') >>
    /\ displacement' = Displaced(displacement, cmds') /\ detections' = 0
    /\ status' = StatusAfter(cmds')
    /\ state' = state + 1
    /\ wpc' = "af1" /\ nocircle' = 0 /\ toolCoordinates' = "unbound"
    /\ op' = "step"
    /\ UNCHANGED << flag_vars, cap_open, transform_matrix, detect_count,
                    calibration_moves, xy, transform_input, loop_vars,
                    gui_vars, signals, hist_vars >>
    /\ frame_message' = "none"
    /\ UNCHANGED det_vars
    /\ UNCHANGED << res_vars, calc, toolBox, detect_checked, average_location >>

\* lines 981-984: the one absolute move to newCenter, the constant row of
\* the transform
CentreMoveTwice(T) == << <<"ABS", T[6][1], T[6][2]>>, <<"ABS", T[6][1], T[6][2]>> >>
CentreMove(T) == << <<"ABS", T[6][1], T[6][2]>> >>

\* lines 962-990: the last sample, the least-squares solve and the absolute
\* move to the centre estimate
transformSolve ==
    /\ wpc = "step" /\ state = Len(calibrationCoordinates)
    /\ oldxy' = xy
    /\ space_coordinates' = space_coordinates + 1
    /\ camera_coordinates' = camera_coordinates + 1
    /\ transform_input' = camera_coordinates'
    /\ samples_identical' = TRUE
    /\ \E T \in least_square_mapping(<< transform_input', AllIdentical >>) :
          /\ transform_matrix' = T
          /\ cmds' = CentreMove(T)
    \* the absolute move ends the sweep
    /\ displacement' = <<0, 0>> /\ detections' = 0
    /\ status' = StatusAfter(cmds')
    /\ state' = CONVERGING
    /\ wpc' = "af1" /\ nocircle' = 0 /\ toolCoordinates' = "unbound"
    /\ op' = "step"
    /\ UNCHANGED << flag_vars, cap_open, mpp, detect_count, calibration_moves, xy,
                    offsetXY, loop_vars, gui_vars, signals, hist_vars >>
    /\ frame_message' = "none"
    /\ UNCHANGED det_vars
    /\ UNCHANGED << res_vars, calc, toolBox, detect_checked, average_location >>

\* line 1009: both rounded offsets are zero
ConvergedEitherAxis(o) == o[1] = 0 \/ o[2] = 0
Converged(o) == o[1] = 0 /\ o[2] = 0

\* lines 992-1049: state 200, the damped correction move; on a zero offset
\* the result is emitted and calibrateTool returns
converge ==
    /\ wpc = "step" /\ state = CONVERGING
    /\ \/ /\ status' = "busy"
          /\ LET offsets == ConvergenceOffsets(transform_matrix, xy)
             IN  IF Converged(offsets)
                 THEN /\ cmds' = << <<"M564">>, RelMove(offsets), <<"F13200">>,
                                    <<"F13200">> >>
                      /\ Emit(<<"result", tool, rep>>)
                      /\ log' = Append(log, <<"result", rep, tool>>)
                      /\ wpc' = "g10"
                      /\ CalibrateToolLeft /\ AnalyzeFrameLeft
                 ELSE /\ cmds' = << <<"M564">>, RelMove(offsets) >>
                      /\ calibration_moves' = Min(calibration_moves + 1, MaxMoves)
                      /\ oldxy' = xy
                      /\ state' = CONVERGING
                      /\ wpc' = "af1" /\ AnalyzeFrameLeft
                      /\ detections' = 0
                      /\ UNCHANGED << signals, log, detect_count,
                                      space_coordinates, camera_coordinates, xy,
                                      offsetXY, samples_identical, displacement >>
          /\ op' = "step"
          /\ UNCHANGED << flag_vars, cap_open, transform_matrix, mpp,
                          transform_input, loop_vars, gui_vars, stop_requested >>
       \* lines 1005-1006: the gCode call raised
       \/ MotionFailure
    /\ frame_message' = "none"
    /\ UNCHANGED det_vars
    /\ UNCHANGED << res_vars, calc, toolBox, detect_checked, average_location >>

\* ---- run: after calibrateTool ------------------------------------------------------
\* lines 619-620: the pair after (r, t), cycles outermost; <<>> after the
\* last pair
NextPairToolMajor(r, t) ==
    IF r + 1 < self_cycles THEN <<r + 1, t>>
    ELSE IF t + 1 < num_tools THEN <<0, t + 1>>
    ELSE << >>
NextPair(r, t) ==
    IF t + 1 < num_tools THEN <<r, t + 1>>
    ELSE IF r + 1 < self_cycles THEN <<r + 1, 0>>
    ELSE << >>

\* lines 660-665: apply the offsets with G10, then the next tool, the next
\* cycle, or _running = False
applyOffsets ==
    /\ wpc = "g10"
    /\ cmds' = << <<"G10", tool>> >>
    /\ log' = Append(log, <<"g10", rep, tool>>)
    /\ LET next == NextPair(rep, tool)
       IN  IF next # << >>
           THEN /\ rep' = next[1] /\ tool' = next[2] /\ wpc' = "select"
                /\ UNCHANGED running
           ELSE /\ running' = FALSE /\ wpc' = "while_running"
                /\ LoopsLeft
    /\ op' = "g10"
    /\ UNCHANGED << alignment, detection_on, display_crosshair, cap_open, ct_vars,
                    af_vars, self_cycles, status, gui_vars, signals,
                    stop_requested >>
    /\ frame_message' = "none"
    /\ UNCHANGED det_vars
    /\ UNCHANGED << res_vars, calc, toolBox, detect_checked, average_location >>

\* lines 666-671: unload the tool
unloadTools ==
    /\ wpc = "unload"
    /\ cmds' = << <<"T", -1>> >>
    /\ status' = StatusAfter(cmds')
    /\ log' = Append(log, <<"unload", -1, -1>>)
    /\ wpc' = "end_x"
    /\ op' = "unload"
    /\ UNCHANGED << flag_vars, cap_open, ct_vars, af_vars, loop_vars, gui_vars,
                    signals, stop_requested >>
    /\ frame_message' = "none"
    /\ UNCHANGED det_vars
    /\ UNCHANGED << res_vars, calc, toolBox, detect_checked, average_location >>

\* lines 672-674: one of the three moves back to the controlled point
returnToCP ==
    /\ wpc \in {"end_x", "end_y", "end_z"}
    /\ IF cp_coords
       THEN /\ cmds' = << <<"G1", wpc>> >>
            /\ status' = StatusAfter(cmds')
            /\ log' = Append(log, <<wpc, -1, -1>>)
            /\ wpc' = NextAxis(wpc)
            /\ op' = "move_cp"
            /\ UNCHANGED << flag_vars, cap_open, ct_vars, af_vars, loop_vars,
                            gui_vars, signals, stop_requested >>
       ELSE SessionException
    /\ frame_message' = "none"
    /\ UNCHANGED det_vars
    /\ UNCHANGED << res_vars, calc, toolBox, detect_checked, average_location >>

\* lines 676-679: the four flags after a completed session
FlagsDetectionLeftOn ==
    /\ alignment' = FALSE /\ UNCHANGED detection_on
    /\ display_crosshair' = FALSE /\ running' = FALSE
FlagsCleared ==
    /\ alignment' = FALSE /\ detection_on' = FALSE
    /\ display_crosshair' = FALSE /\ running' = FALSE

\* lines 675-680: clear the flags and emit calibration_complete
complete ==
    /\ wpc = "complete"
    /\ FlagsCleared
    /\ Emit(<<"complete">>)
    /\ log' = Append(log, <<"complete", -1, -1>>)
    /\ stop_requested' = FALSE
    /\ wpc' = "top"
    /\ op' = "complete" /\ cmds' = << >>
    /\ UNCHANGED << cap_open, ct_vars, af_vars, loop_vars, status, gui_vars >>
    /\ frame_message' = "none"
    /\ UNCHANGED det_vars
    /\ UNCHANGED << res_vars, calc, toolBox, detect_checked, average_location >>

\* ---- the system ----------------------------------------------------------------------
Worker ==
    \/ RunTop \/ RunBranch \/ WhileRunning \/ SelectTool \/ MoveToCP \/ WaitIdle
    \/ calibrateToolInit \/ analyzeFrame \/ detectLoop
    \/ cameraCalInit \/ cameraCalSweep \/ transformSolve \/ converge
    \/ applyOffsets \/ unloadTools \/ returnToCP \/ complete

Gui ==
    \/ connectToPrinter \/ controlledPoint \/ runCalibration \/ runCalibrationAlign
    \/ stop \/ addCalibrationResult \/ applyCalibration \/ updateStatusbar
    \/ displayJogPanel

Next == Worker \/ Gui \/ MachineIdle

Spec == Init /\ [][Next]_vars

\* The detection controls and the camera settings dialog, with the worker in
\* its preview and detect-only loops (no machine is connected)
DetectNext ==
    \/ toggle_detect \/ toggleLoose \/ toggleLooseFlip \/ changeThreshold
    \/ displayCameraSettings \/ setProperty \/ setPropertyReturns
    \/ closeCameraSettings \/ updateStatusbar
    \/ RunTop \/ RunBranch \/ detectLoop \/ analyzeFrame

DetectSpec == Init /\ [][DetectNext]_vars

\* ---- the result collection and its sessions ---------------------------------------
\* The offsets and the mpp a converged calibrateTool reports (lines
\* 1012-1022), as the numbers their strings denote
ResultOffsets == { <<800, -1200>>, <<1000, -1000>>, <<1200, -1200>> }
ResultMpps == { MppOf(p, q) : p, q \in Pixels } \ { Inf }

\* In ResultsSpec the worker is taken in three large steps, each the whole
\* of a part of run. Lines 606-620: the session is entered
sessionBegins ==
    /\ wpc = "top" /\ detection_on /\ alignment
    /\ running' = TRUE
    /\ self_cycles' = cycles /\ rep' = 0 /\ tool' = 0
    /\ wpc' = "select"
    /\ op' = "session_begin" /\ cmds' = << >> /\ frame_message' = "none"
    /\ UNCHANGED << alignment, detection_on, display_crosshair, cap_open, ct_vars,
                    af_vars, status, gui_vars, signals, hist_vars, det_vars,
                    res_vars, calc, toolBox, detect_checked, average_location >>

\* lines 621-665: one pass of the loop over the tools, from the tool change
\* to the G10 that applies the offsets calibrateTool returned; calibrateTool
\* emits result_update with the dict of lines 1039-1045
toolCalibrated ==
    /\ wpc = "select"
    /\ Len(calibrationResults) + Len(signals) < MaxResults
    /\ \E final \in ResultOffsets, m \in ResultMpps :
          /\ Emit(<<"result", [tool |-> tool, cycle |-> rep, mpp |-> m,
                                X |-> final[1], Y |-> final[2]]>>)
          /\ cmds' = << <<"T", tool>>, <<"G10", tool, final[1], final[2]>> >>
    /\ status' = StatusAfter(cmds')
    /\ LET next == NextPair(rep, tool)
       IN  IF next # << >>
           THEN /\ rep' = next[1] /\ tool' = next[2] /\ wpc' = "select"
                /\ UNCHANGED running
           ELSE /\ running' = FALSE /\ wpc' = "unload"
                /\ LoopsLeft
    /\ op' = "result" /\ frame_message' = "none"
    /\ UNCHANGED << alignment, detection_on, display_crosshair, cap_open, ct_vars,
                    af_vars, self_cycles, gui_vars, hist_vars, det_vars,
                    res_vars, calc, toolBox, detect_checked, average_location >>

\* lines 666-680: the tool is unloaded, the machine returned, the flags
\* cleared and calibration_complete emitted
sessionCompletes ==
    /\ wpc = "unload" /\ connected
    /\ FlagsCleared
    /\ Emit(<<"complete">>)
    /\ cmds' = << <<"T", -1>>, <<"G1", "end_x">>, <<"G1", "end_y">>,
                  <<"G1", "end_z">> >>
    /\ status' = StatusAfter(cmds')
    /\ wpc' = "top"
    /\ op' = "complete" /\ frame_message' = "none"
    /\ UNCHANGED << cap_open, ct_vars, af_vars, loop_vars, gui_vars, hist_vars,
                    det_vars, res_vars,
                    calc, toolBox, detect_checked, average_location >>

ResultsNext ==
    \/ connectToPrinter \/ controlledPoint \/ runCalibration \/ runCalibrationAlign
    \/ addCalibrationResult \/ applyCalibration \/ analyzeResults
    \/ sessionBegins \/ toolCalibrated \/ sessionCompletes \/ MachineIdle

ResultsSpec == Init /\ [][ResultsNext]_vars

\* ---- the arithmetic of the calibration, call by call -----------------------------
\* In CalcSpec the functions of the arithmetic are called by themselves:
\* the arguments of the call are drawn from the sets below, the action of
\* the function applies it, and calc records the call and what it returned
rest_vars == << flag_vars, cap_open, worker_vars, status, gui_vars, signals,
               hist_vars, op, cmds, frame_message, det_vars, res_vars,
               toolBox, detect_checked, average_location >>

\* np.around(v, 3) of a length v given in ten-thousandths of a millimetre,
\* in thousandths. A value half-way between two thousandths has no exact
\* double, and the product with 1000 that np.around rounds can fall on
\* either side: both neighbours are possible
Around3(v) ==
    LET q == v \div 10
        r == v - q * 10
    IN  IF 2 * r < 10 THEN {q} ELSE IF 2 * r > 10 THEN {q + 1} ELSE {q, q + 1}

\* lines 1014-1016: final_x and final_y, from the controlled point, the G10
\* offset of the tool and the position the tool was found at
FinalOffsetReversed(cp, tool_offsets, tool_coordinates) ==
    { << x, y >> : x \in Around3(tool_coordinates[1] - (cp[1] + tool_offsets[1])),
                   y \in Around3(tool_coordinates[2] - (cp[2] + tool_offsets[2])) }
FinalOffset(cp, tool_offsets, tool_coordinates) ==
    { << x, y >> : x \in Around3((cp[1] + tool_offsets[1]) - tool_coordinates[1]),
                   y \in Around3((cp[2] + tool_offsets[2]) - tool_coordinates[2]) }

\* the arguments of the calls, in ten-thousandths of a millimetre
CalcLengths == { 985000, 999995, 1000000, 1012000 }
CalcOffsets == { << 0, 0 >>, << -12345, 15 >> }
FinalOffsetCalls ==
    { << << 1000000, 1000000 >>, off, << x, y >> >> :
        x \in CalcLengths, y \in CalcLengths, off \in CalcOffsets }
finalOffset ==
    /\ calc[1] = "call" /\ calc[2] = "final_offset"
    /\ \E final \in FinalOffset(calc[3][1], calc[3][2], calc[3][3]) :
          calc' = << "final_offset", calc[3], final >>
    /\ UNCHANGED rest_vars

CalcPixelXs == { 0, 160, 320, 321, camera_width }
CalcPixelYs == { 0, 120, 240, 241, camera_height }
normalizeCoords ==
    /\ calc[1] = "call" /\ calc[2] = "normalize_coords"
    /\ calc' = << "normalize_coords", calc[3], normalize_coords(calc[3]) >>
    /\ UNCHANGED rest_vars

\* line 1066: the row of A for one sample, x**2, y**2, x*y, x, y, 1
MonomialsNoCross(p) == << p[1] * p[1], p[2] * p[2], 0, p[1], p[2], 1 >>
Monomials(p) == << p[1] * p[1], p[2] * p[2], p[1] * p[2], p[1], p[2], 1 >>
DesignMatrix(pixel_coords) ==
    [ i \in 1..Len(pixel_coords) |-> Monomials(pixel_coords[i]) ]

Abs(a) == IF a < 0 THEN -a ELSE a
RECURSIVE GCD(_, _)
GCD(a, b) == IF b = 0 THEN a ELSE GCD(b, a % b)
RowGCD(row) ==
    GCD(GCD(GCD(Abs(row[1]), Abs(row[2])), GCD(Abs(row[3]), Abs(row[4]))),
        GCD(Abs(row[5]), Abs(row[6])))
Reduced(row) ==
    LET g == RowGCD(row)
    IN  IF g = 0 THEN row ELSE [ k \in 1..6 |-> row[k] \div g ]

\* the rank of a matrix of six columns, which lstsq finds from the singular
\* values: here by elimination without fractions, column by column
RECURSIVE RankFrom(_, _)
RankFrom(rows, col) ==
    IF col > 6 \/ rows = << >> THEN 0
    ELSE LET pivots == { i \in 1..Len(rows) : rows[i][col] # 0 }
         IN  IF pivots = {} THEN RankFrom(rows, col + 1)
             ELSE LET p == CHOOSE i \in pivots : \A j \in pivots : i <= j
                      P == rows[p]
                      rest == [ i \in 1..(Len(rows) - 1) |->
                                  LET R == rows[IF i < p THEN i ELSE i + 1]
                                  IN  Reduced([ k \in 1..6 |->
                                                  P[col] * R[k] - R[col] * P[k] ]) ]
                  IN  1 + RankFrom(rest, col + 1)
Rank(rows) == RankFrom(rows, 1)

RowDot(row, x) ==
    row[1] * x[1] + row[2] * x[2] + row[3] * x[3]
      + row[4] * x[4] + row[5] * x[5] + row[6] * x[6]

\* np.linalg.lstsq(A, b, rcond=None) for one column b that A reaches
\* exactly: of the x with A x = b the one of least norm, which is the one
\* in the row space of A (the only one, when A has rank 6). The
\* coefficients are looked for among the integers of SolutionBox
SolutionBox == [ 1..6 -> -1..1 ]
lstsq(A, b) ==
    { x \in SolutionBox :
        /\ \A i \in 1..Len(A) : RowDot(A[i], x) = b[i]
        /\ Rank(Append(A, x)) = Rank(A) }

\* the residuals lstsq returns: empty unless A has rank 6 and more rows
\* than columns, and then the sums of the squared residuals, which are 0
\* for a system solved exactly. transform[1].mean() of the empty array is
\* nan
residuals_mean(A) ==
    IF Rank(A) = 6 /\ Len(A) > 6 THEN << "value", 0 >> ELSE << "nan" >>

\* CalibrateNozzles.least_square_mapping with lstsq worked out, for
\* calibration_points without noise: the transforms and the mean residual
\* it returns
least_square_mapping_exact(calibration_points) ==
    LET n == Len(calibration_points)
        real_coords == [ i \in 1..n |-> calibration_points[i][1] ]
        pixel_coords == [ i \in 1..n |-> calibration_points[i][2] ]
        A == DesignMatrix(pixel_coords)
    IN  { << [ k \in 1..6 |-> << x[k], y[k] >> ], residuals_mean(A) >> :
            x \in lstsq(A, [ i \in 1..n |-> real_coords[i][1] ]),
            y \in lstsq(A, [ i \in 1..n |-> real_coords[i][2] ]) }

\* the transforms the samples are generated from (a column of the 6 x 2
\* matrix each) and the places of the samples, in units of the grid they
\* lie on
KnownColumns == { << 0, 0, 0, 1, 0, 0 >>, << 1, -1, 1, 0, 1, -1 >>,
                  << 0, 0, 1, 1, 1, 1 >> }
KnownTransforms ==
    { [ k \in 1..6 |-> << a[k], b[k] >> ] : a \in KnownColumns, b \in KnownColumns }
SixPoints == << <<0, 0>>, <<1, 0>>, <<-1, 0>>, <<0, 1>>, <<0, -1>>, <<1, 1>> >>
SamplePlaces ==
    { SixPoints \o << <<1, -1>>, <<-1, 1>>, <<-1, -1>> >>,
      SixPoints \o << <<1, -1>> >>,
      SixPoints,
      << <<0, 0>>, <<1, 0>>, <<-1, 0>>, <<0, 1>>, <<0, -1>> >>,
      << <<-1, 0>>, <<0, 0>>, <<1, 0>>, <<-1, 0>>, <<0, 0>>, <<1, 0>>, <<0, 0>> >>,
      [ i \in 1..11 |-> <<0, 0>> ] }
\* samples without noise: the real coordinates are those the transform
\* gives for the pixel coordinates
Generated(T, places) ==
    [ i \in 1..Len(places) |->
        << << Dot(T, Monomials(places[i]), 1), Dot(T, Monomials(places[i]), 2) >>,
           places[i] >> ]
leastSquareMapping ==
    /\ calc[1] = "call" /\ calc[2] = "least_square_mapping"
    /\ \E out \in least_square_mapping_exact(Generated(calc[3][1], calc[3][2])) :
          calc' = << "least_square_mapping", calc[3], out >>
    /\ UNCHANGED rest_vars

CalcInit ==
    /\ Constructed
    /\ calc \in { << "call", "final_offset", c >> : c \in FinalOffsetCalls }
            \cup { << "call", "normalize_coords", c >> : c \in CalcPixelXs \X CalcPixelYs }
            \cup { << "call", "least_square_mapping", c >> :
                      c \in KnownTransforms \X SamplePlaces }

CalcNext == finalOffset \/ normalizeCoords \/ leastSquareMapping

CalcSpec == CalcInit /\ [][CalcNext]_vars

\* ---- properties -----------------------------------------------------------------------
IsPrefix(a, b) == Len(a) <= Len(b) /\ SubSeq(b, 1, Len(a)) = a
HasCmd(kinds) == \E i \in 1..Len(cmds) : cmds[i][1] \in kinds
CountKind(l, kind) == Cardinality({ i \in 1..Len(l) : l[i][1] = kind })

\* what the session of C cycles and N tools does for the pair (r, t)
ExpectedPair(r, t) ==
    << <<"select", r, t>>, <<"cp_x", r, t>>, <<"cp_y", r, t>>, <<"cp_z", r, t>>,
       <<"idle", r, t>>, <<"calibrate", r, t>>, <<"result", r, t>>, <<"g10", r, t>> >>
RECURSIVE ExpectedPairs(_, _)
ExpectedPairs(k, N) ==
    IF k = 0 THEN << >>
    ELSE ExpectedPairs(k - 1, N) \o ExpectedPair((k - 1) \div N, (k - 1) % N)
Epilogue ==
    << <<"unload", -1, -1>>, <<"end_x", -1, -1>>, <<"end_y", -1, -1>>,
       <<"end_z", -1, -1>>, <<"complete", -1, -1>> >>
ExpectedSession(C, N) == ExpectedPairs(C * N, N) \o Epilogue

\* C1: in a session that no stop request and no exception disturbs, the
\* worker goes through the (cycle, tool) pairs cycle by cycle, each pair once,
\* and for each pair selects the tool, moves to the controlled point in X, Y
\* and Z, waits for idle, runs calibrateTool, and sends G10 before the next
\* tool is selected; the completed session has emitted cycles * num_tools
\* results.
C1_SessionOrder ==
    /\ [](InSession /\ ~stop_requested
            => IsPrefix(log, ExpectedSession(cycles, num_tools)))
    /\ [][op' = "complete" /\ ~stop_requested
            => /\ log' = ExpectedSession(cycles, num_tools)
               /\ CountKind(log', "result") = cycles * num_tools]_vars
C1_Witness ==
    /\ op = "complete" /\ cycles = 2 /\ num_tools = 2
    /\ CountKind(log, "result") = 4 /\ log[17] = <<"select", 1, 0>>

ResultEmitted ==
    /\ Len(signals') = Len(signals) + 1
    /\ signals'[Len(signals')][1] = "result"
RoundsToZero(T, p) ==
    LET o == ConvergenceOffsets(T, p) IN o[1] = 0 /\ o[2] = 0

\* C2: a result is emitted, and calibrateTool returns, only in a step taken
\* in state 200 whose X and Y offsets both round to 0.000, one result per
\* return; a state-200 step with a non-zero rounded offset (whose gCode calls
\* did not fail) stays in state 200 and emits nothing.
C2_TerminatesOnZeroOffset ==
    [][/\ ResultEmitted
          => /\ wpc = "step" /\ state = CONVERGING
             /\ RoundsToZero(transform_matrix, xy)
             /\ wpc' = "g10"
             /\ signals' = Append(signals, <<"result", tool, rep>>)
       /\ wpc \in {"af1", "af2", "step"} /\ wpc' = "g10" => ResultEmitted
       /\ wpc = "step" /\ op' = "step" /\ state = CONVERGING
            /\ ~RoundsToZero(transform_matrix, xy)
          => /\ state' = CONVERGING /\ wpc' = "af1"
             /\ signals' = signals]_vars
C2_Witness ==
    /\ op = "step" /\ wpc = "g10" /\ cmds[2] = <<"REL", 0, 0>>
    /\ signals # << >> /\ signals[Len(signals)][1] = "result"

\* C3: a step that examined a frame with no keypoint or with several leaves
\* analyzeFrame where it was and changes neither self.state nor the samples,
\* the detection count, the transform or mpp, and sends no command.
C3_BadFrameChangesNothing ==
    [][op' \in {"frame0", "frameN"}
          => /\ wpc' = wpc /\ cmds' = << >>
             /\ UNCHANGED << state, space_coordinates, camera_coordinates,
                             detect_count, xy, oldxy, calibration_moves,
                             transform_matrix, mpp, transform_input, offsetXY,
                             log, signals, status >>]_vars
C3_Witness == op = "frameN" /\ wpc = "af2" /\ state = 3 /\ detect_count >= position_iterations

\* C4 as stated: the list handed to least_square_mapping holds exactly 10 pairs.
C4_TenSamples == transform_matrix # Empty => transform_input = 10
\* C4 as amended: the list handed to least_square_mapping holds exactly 11
\* pairs, the sample of state 0 and one sample after each of the 10 sweep moves.
C4_ElevenSamples ==
    transform_matrix # Empty => transform_input = Len(calibrationCoordinates) + 1
C4_Witness == transform_matrix # Empty /\ transform_input = 11 /\ op = "step"

\* C5: a stop request made during a session, with the machine idle, clears
\* _running, unloads the tool with T-1, sends the return move and releases
\* the camera.
C5_StopUnloads ==
    op = "stop" /\ InSession /\ status = "idle"
        => /\ ~running /\ ~cap_open
           /\ \E i \in 1..Len(cmds) : cmds[i] = <<"T", -1>>
           /\ HasCmd({"G1"})

\* C6: once stop() has been called during a session, the worker selects no
\* tool and sends no move for a tool or cycle.
C6_NoCommandAfterStop ==
    stop_requested /\ op \notin {"stop", "jog"}
        => ~\E i \in 1..Len(cmds) :
               \/ cmds[i][1] = "T" /\ cmds[i][2] >= 0
               \/ cmds[i][1] \in {"REL", "ABS"}
               \/ cmds[i][1] = "G1" /\ cmds[i][2] \in {"cp_x", "cp_y", "cp_z"}

\* C7: a convergence offset that follows a relative move of the same loop is
\* computed only when the machine reports idle.
C7_OffsetOnlyWhenIdle ==
    [][wpc = "step" /\ state = CONVERGING /\ calibration_moves >= 1 /\ op' = "step"
          => status = "idle"]_vars

\* C8: the convergence moves of one calibrateTool call are capped: their
\* count stays below the largest count the model represents.
C8_IterationCap == calibration_moves < MaxMoves

\* C9: the step that completes a session comes after T-1 and the three moves
\* to the controlled point, leaves alignment, detection_on, display_crosshair
\* and _running false, and emits calibration_complete, the only one of the
\* session and after all its results.
C9_Completion ==
    op = "complete"
        => /\ ~alignment /\ ~detection_on /\ ~display_crosshair /\ ~running
           /\ Len(log) >= Len(Epilogue)
           /\ SubSeq(log, Len(log) - Len(Epilogue) + 1, Len(log)) = Epilogue
           /\ CountKind(log, "complete") = 1
           /\ signals # << >> /\ signals[Len(signals)] = <<"complete">>
C9_Witness == op = "complete" /\ CountKind(log, "result") = 2 /\ ~detection_on

\* C10 as stated: every calibrateTool call starts in state 0.
C10_AlwaysStartsAtZero == op = "calibrateTool" => state = 0
\* C10 as amended: a calibrateTool call starts in state 0 exactly when the
\* worker holds no transform matrix, and in state 200 otherwise; state 200 is
\* entered from the sweep only by the solve step, after 11 samples; a
\* transform matrix, once computed, is never replaced.
C10_TransformOncePerWorker ==
    [][/\ op' = "calibrateTool"
          => /\ (state' = 0) = (transform_matrix = Empty)
             /\ (state' = CONVERGING) = (transform_matrix # Empty)
       /\ state' = CONVERGING /\ state # CONVERGING /\ op' # "calibrateTool"
          => /\ state = Len(calibrationCoordinates)
             /\ camera_coordinates' = Len(calibrationCoordinates) + 1
             /\ transform_matrix = Empty /\ transform_matrix' # Empty
       /\ transform_matrix' # transform_matrix => transform_matrix = Empty]_vars
C10_Witness ==
    op = "calibrateTool" /\ state = CONVERGING /\ tool = 1 /\ transform_matrix # Empty

\* a step of the worker that examined a frame inside analyzeFrame
FrameOps == { "frame0", "frame1", "frameN" }
InFrameLoop == wpc \in {"af1", "af2", "af_det"}
FrameStep == InFrameLoop /\ op' \in FrameOps

\* C11: while the worker is in an alignment session, a step that sends a
\* motion command (tool change or move) is a step of the worker.
C11_WorkerSoleMover ==
    InSession /\ (\E i \in 1..Len(cmds) : IsMotion(cmds[i]))
        => op \in {"select", "move_cp", "step", "unload"}

\* C12: no frame is read from the capture handle while a cap.set of
\* setProperty is in progress on it.
C12_SetPropertySerialized ==
    [][(FrameStep \/ (InFrameLoop /\ op' = "read_failed")) => gpc # "cap_set"]_vars

\* C13: once changeThreshold has taken new slider values, the detector that
\* examines the next frame is built with these thresholds.
C13_ThresholdsReachDetector ==
    [][FrameStep /\ app_detector_changed => detector'[1] = app_detect_th]_vars

\* C14: when the worker has just examined a frame, no toggleLoose is in
\* progress and no rebuild is pending, the detector (the one the next frame
\* is examined with) is built with minCircularity 0.6 if loose is set and
\* 0.7 otherwise.
C14_DetectorFollowsLoose ==
    op \in FrameOps /\ gpc # "toggleLoose" /\ ~detector_changed
        => detector[2] = (IF loose THEN 6 ELSE 7)

\* C15: a step of a session in which a camera read failed reopens the
\* device and leaves the worker where it was, in the session.
C15_ReadFailureNeverAborts ==
    [][InSession /\ op' \in {"read_failed", "frame_failure"}
          => wpc' = wpc /\ cap_open']_vars

\* C16: the step in which an exception unwinds a session leaves alignment,
\* detection_on, display_crosshair and _running false and the camera
\* released, ends the session and emits one detection_error; no other step
\* of a session emits a detection_error.
C16_FatalErrorUnwinds ==
    [][/\ InSession /\ op' \in {"motion_failure", "frame_failure", "exception"}
          => /\ ~alignment' /\ ~detection_on' /\ ~display_crosshair' /\ ~running'
             /\ ~cap_open'
             /\ signals' = Append(signals, <<"error">>)
             /\ wpc' = "top"
       /\ InSession /\ Len(signals') > Len(signals)
            /\ signals'[Len(signals')] = <<"error">>
          => op' \in {"motion_failure", "frame_failure", "exception"}]_vars
C16_Witness ==
    /\ op = "motion_failure" /\ wpc = "top" /\ ~running /\ ~alignment /\ ~cap_open
    /\ signals = << <<"error">> >> /\ Len(log) >= 2

\* C17: the step in which a failed gCode call aborts the session sends T-1
\* and a move back to the controlled point.
C17_MotionFailureUnloads ==
    op = "motion_failure"
        => /\ \E i \in 1..Len(cmds) : cmds[i] = <<"T", -1>>
           /\ HasCmd({"G1"})

\* C18: the solve step whose calibration samples all hold the same pixel
\* aborts the session: it does not move to the centre estimate, does not
\* enter state 200 and leaves no transform matrix.
C18_DegenerateFitAborts ==
    [][wpc = "step" /\ state = Len(calibrationCoordinates) /\ AllIdentical
            /\ wpc' # wpc
          => /\ wpc' = "top" /\ state' # CONVERGING
             /\ transform_matrix' = Empty /\ cmds' = << >>]_vars

\* C19 as stated: every frame without a feature advances the no-detection
\* counter, so that the frame after 26 consecutive ones signals the advisory
\* and restarts the counter without leaving analyzeFrame; a frame with one
\* feature resets the counter.
C19_EveryEmptyFrameCounts ==
    [][FrameStep
          => /\ nocircle <= 25 /\ op' = "frame0" => nocircle' = nocircle + 1
             /\ nocircle = 26
                  => /\ frame_message' = "Error in detecting nozzle."
                     /\ nocircle' = 0 /\ wpc' = wpc
             /\ nocircle <= 25 /\ op' = "frame1" => nocircle' = 0]_vars
\* C19 as amended: a frame without a feature advances the counter exactly
\* when the 25 ms test passes (it then emits 'No circles found.'); a frame
\* with several features leaves the counter alone; the counter never passes
\* 26; the frame examined when it is 26, and no other, emits the advisory,
\* restarts the counter, is dropped and leaves the worker in analyzeFrame
\* with no detection_error; a returned frame with one feature resets the
\* counter.
C19_GatedEmptyFrameCounts ==
    /\ [](nocircle <= 26)
    /\ [][FrameStep
            => /\ nocircle <= 25 /\ op' = "frame0"
                    => /\ nocircle' \in {nocircle, nocircle + 1}
                       /\ (nocircle' = nocircle + 1)
                            <=> (frame_message' = "No circles found.")
                       /\ frame_message' \in {"No circles found.", "none"}
               /\ nocircle <= 25 /\ op' = "frameN" => nocircle' = nocircle
               /\ nocircle <= 25 /\ op' = "frame1" => nocircle' = 0
               /\ (frame_message' = "Error in detecting nozzle.") <=> (nocircle = 26)
               /\ nocircle = 26
                    => /\ nocircle' = 0 /\ wpc' = wpc /\ signals' = signals
                       /\ UNCHANGED << state, detect_count, xy, running,
                                       detection_on, alignment >>]_vars
C19_Witness ==
    /\ frame_message = "Error in detecting nozzle." /\ nocircle = 0
    /\ wpc = "af2" /\ op = "frame0" /\ detection_on

\* what a frame that is not consumed leaves alone: the place in
\* analyzeFrame and everything calibrateTool computes from a detection
NothingConsumed ==
    /\ wpc' = wpc /\ cmds' = << >>
    /\ UNCHANGED << state, detect_count, xy, oldxy, space_coordinates,
                    camera_coordinates, samples_identical, transform_matrix,
                    mpp, calibration_moves, signals >>

\* C20 as stated: every frame with more than one feature emits the
\* ambiguity advisory, and nothing of it is consumed.
C20_EveryAmbiguousFrameAdvised ==
    [][FrameStep /\ op' = "frameN"
          => frame_message' = "Too many circles found." /\ NothingConsumed]_vars
\* C20 as amended: a frame with more than one feature emits the ambiguity
\* advisory or, when the 25 ms test fails, nothing; examined when the
\* no-detection counter is 26 it emits 'Error in detecting nozzle.' instead;
\* in every case nothing of it is consumed.
C20_AmbiguousFrameNotConsumed ==
    [][FrameStep /\ op' = "frameN"
          => /\ nocircle <= 25
                  => frame_message' \in {"Too many circles found.", "none"}
             /\ nocircle = 26 => frame_message' = "Error in detecting nozzle."
             /\ NothingConsumed]_vars
C20_Witness ==
    /\ op = "frameN" /\ frame_message = "Too many circles found."
    /\ wpc = "af2" /\ state = CONVERGING /\ nocircle >= 1

\* a step of calibrateTool: lines 914-1049, entered after the confirming
\* detection of line 912
ControllerStep == wpc = "step" /\ op' = "step"

C29_WaitKeepsPreview ==
    [][(wpc = "wait_idle"
          /\ op' \in {"wait_frame", "read_failed", "frame_failure", "idle_seen"})
          => IF status = "idle"
             THEN op' = "idle_seen" /\ wpc' = "calibrateTool"
             ELSE op' \in {"wait_frame", "read_failed"} /\ wpc' = "wait_idle"]_vars

\* C30: when calibrateTool takes a step, analyzeFrame has returned exactly
\* position_iterations (5) detections to line 896 since the call began or
\* since the previous step, the confirming detection of line 912 not counted.
C30_FiveDetectionsPerStep ==
    [][ControllerStep => detections = position_iterations]_vars

\* C22: when a new alignment session starts, the result collection holds no
\* result of an earlier session: it is empty as the session begins
C22_CollectionResetAtSessionStart ==
    [][(wpc = "top" /\ wpc' = "select" /\ op' = "session_begin")
          => calibrationResults' = << >>]_vars

\* C23: the result collection is append-only. A convergence that ends
\* emits one result event; the collection changes exactly when a result
\* event is taken from the queue, and then by that event's record being put
\* at its end; every other step (statistics, parseData, export,
\* applyCalibration and the rest) leaves every entry where and as it was
ResultArrives ==
    /\ signals # << >> /\ Head(signals)[1] = "result"
    /\ signals' = Tail(signals)
C23_AppendOnly ==
    [][/\ op' = "result"
          => /\ Len(signals') = Len(signals) + 1
             /\ signals'[Len(signals')][1] = "result"
       /\ ResultArrives
          => /\ Len(calibrationResults') = Len(calibrationResults) + 1
             /\ calibrationResults'[Len(calibrationResults')] = Head(signals)[2]
             /\ \A i \in 1..Len(calibrationResults) :
                   calibrationResults'[i] = calibrationResults[i]
       /\ ~ResultArrives => calibrationResults' = calibrationResults]_vars
C23_Witness ==
    /\ op = "addCalibrationResult" /\ Len(calibrationResults) = 3
    /\ calibrationResults[1].X # calibrationResults[3].X
    /\ stats_out[1] = "table"
    /\ output_json[1] = "file" /\ Len(output_json[2]) = 2

\* C26: the statistics of a tool are taken over all results that carry the
\* tool's id, for X and for Y independently: the largest and the smallest
\* value, the mean and the standard deviation to the thousandth, and the
\* range, which is max - min; min <= mean <= max; for the X samples 1.0,
\* 1.2, 0.8 the mean is 1.000 and the range 0.400
SamplesOf(index, axis) ==
    LET at == { i \in 1..Len(calibrationResults) : calibrationResults[i].tool = index }
    IN  [ i \in at |-> IF axis = "X" THEN calibrationResults[i].X
                       ELSE calibrationResults[i].Y ]
RowAgrees(row, samples) ==
    LET at == DOMAIN samples
        n == Cardinality(at)
        RECURSIVE Total(_)
        Total(S) == IF S = {} THEN 0
                    ELSE LET i == CHOOSE j \in S : TRUE
                         IN  samples[i] + Total(S \ {i})
        sum == Total(at)
    IN  /\ \E i \in at : samples[i] = row.max
        /\ \A i \in at : samples[i] <= row.max
        /\ \E i \in at : samples[i] = row.min
        /\ \A i \in at : samples[i] >= row.min
        /\ row.ran = row.max - row.min
        /\ row.min <= row.avg /\ row.avg <= row.max
        /\ 2 * (n * row.avg - sum) <= n /\ 2 * (sum - n * row.avg) <= n
        /\ 0 <= row.std /\ row.std <= row.ran
        /\ { samples[i] : i \in at } = { 1000, 1200, 800 } /\ n = 3
              => row.avg = 1000 /\ row.ran = 400
C26_Statistics ==
    [][(op' = "applyCalibration" /\ stats_out'[1] = "table")
          => /\ DOMAIN stats_out'[2] = 0..(num_tools - 1)
             /\ \A index \in 0..(num_tools - 1) :
                   /\ RowAgrees(stats_out'[2][index].x, SamplesOf(index, "X"))
                   /\ RowAgrees(stats_out'[2][index].y, SamplesOf(index, "Y"))]_vars
C26_Witness ==
    /\ op = "applyCalibration" /\ stats_out[1] = "table"
    /\ num_tools = 1 /\ Len(calibrationResults) = 3
    /\ calibrationResults[1].X = 1000 /\ calibrationResults[2].X = 1200
    /\ calibrationResults[3].X = 800
    /\ stats_out[2][0].x.avg = 1000 /\ stats_out[2][0].x.ran = 400
    /\ stats_out[2][0].y.ran = 200

\* C27: an export writes the whole result collection as a sequence of flat
\* records with exactly the fields tool, cycle, mpp, X, Y: as many records
\* as the collection has and in its order, and reading the file back gives
\* the records of the collection
C27_ExportRoundTrip ==
    [][op' = "export"
          => /\ output_json'[1] = "file"
             /\ Len(output_json'[2]) = Len(calibrationResults)
             /\ \A i \in 1..Len(calibrationResults) :
                   LET object == output_json'[2][i]
                       result == calibrationResults[i]
                   IN  /\ [ k \in 1..Len(object) |-> object[k][1] ]
                             = << "tool", "cycle", "mpp", "X", "Y" >>
                       /\ [ k \in 1..Len(object) |-> object[k][2] ]
                             = << result.tool, result.cycle, result.mpp,
                                  result.X, result.Y >>
             /\ JsonLoad(output_json'[2]) = calibrationResults]_vars
C27_Witness ==
    /\ op = "export" /\ output_json[1] = "file"
    /\ Len(output_json[2]) = 3 /\ Len(calibrationResults) = 3
    /\ calibrationResults[1] # calibrationResults[2]
    /\ calibrationResults[2] # calibrationResults[3]

\* C24: the final offset of a tool is, on each axis, the controlled point
\* plus the tool's G10 offset minus the position the tool was measured at,
\* rounded to 3 decimals: with the controlled point (100.000, 100.000),
\* the offset (0, 0) and the position (98.500, 101.200) it is
\* (1.500, -1.200)
C24_FinalOffset ==
    calc[1] = "final_offset"
       => LET cp == calc[2][1]
              off == calc[2][2]
              pos == calc[2][3]
              final == calc[3]
          IN  /\ \A a \in 1..2 :
                    LET exact == (cp[a] + off[a]) - pos[a]
                    IN  /\ 10 * final[a] - exact <= 5
                        /\ exact - 10 * final[a] <= 5
              /\ (cp = << 1000000, 1000000 >> /\ off = << 0, 0 >>
                    /\ pos = << 985000, 1012000 >>)
                    => final = << 1500, -1200 >>
C24_Witness ==
    /\ calc[1] = "final_offset"
    /\ calc[2] = << << 1000000, 1000000 >>, << 0, 0 >>, << 985000, 1012000 >> >>
    /\ calc[3] = << 1500, -1200 >>

\* C25: normalize_coords maps the pixel (px, py) to (px / width - 0.5,
\* py / height - 0.5), here as numerators over twice the dimension: in a
\* 640 x 480 frame (320, 240) maps to (0, 0), (0, 0) to (-0.5, -0.5),
\* (640, 480) to (0.5, 0.5), and every pixel of the frame into [-0.5, 0.5]
\* on both axes
C25_NormalizeCoords ==
    calc[1] = "normalize_coords"
       => LET px == calc[2][1]
              py == calc[2][2]
              nx == calc[3][1]
              ny == calc[3][2]
          IN  /\ nx + 640 = 2 * px /\ ny + 480 = 2 * py
              /\ (px = 320 /\ py = 240) => (nx = 0 /\ ny = 0)
              /\ (px = 0 /\ py = 0) => (nx = -640 /\ ny = -480)
              /\ (px = 640 /\ py = 480) => (nx = 640 /\ ny = 480)
              /\ (px \in 0..640 /\ py \in 0..480)
                    => (-640 <= nx /\ nx <= 640 /\ -480 <= ny /\ ny <= 480)
C25_Witness ==
    /\ calc[1] = "normalize_coords"
    /\ calc[2] = << 640, 480 >> /\ calc[3] = << 640, 480 >>

\* C28 as stated: from samples generated without noise from a known 6 x 2
\* transform, least_square_mapping returns that transform, and a residual
\* of zero
Recovered ==
    /\ calc[3][1] = calc[2][1]
    /\ calc[3][2] = << "value", 0 >>
C28_SolverRoundTrip ==
    calc[1] = "least_square_mapping" => Recovered
\* C28 as amended: it does so from more than six samples whose rows
\* x^2, y^2, xy, x, y, 1 have rank 6
SampleRows(places) ==
    [ i \in 1..Len(places) |->
        << places[i][1] * places[i][1], places[i][2] * places[i][2],
           places[i][1] * places[i][2], places[i][1], places[i][2], 1 >> ]
C28_SolverRoundTripFullRank ==
    (/\ calc[1] = "least_square_mapping"
     /\ Len(calc[2][2]) > 6
     /\ Rank(SampleRows(calc[2][2])) = 6) => Recovered
C28_Witness ==
    /\ calc[1] = "least_square_mapping"
    /\ Len(calc[2][2]) = 7
    /\ calc[2][1][3] = << 1, 1 >>
    /\ Recovered

\* C32: in a calibrateTool call that starts without a transform, state is 0
\* at first, every step taken in a state below 10 adds one to it and sends
\* no absolute move, the step taken in state 10 sends exactly one absolute
\* move, to the centre estimate of the transform it has just solved, and
\* makes the state 200, and the state then is 200 until the call returns;
\* nothing but a step changes the state during the call
InCall == wpc \in {"af1", "af2", "step"}
AbsoluteMoves(sent) == { i \in 1..Len(sent) : sent[i][1] = "ABS" }
C32_StateSequence ==
    [][/\ (op' = "calibrateTool" /\ transform_matrix = Empty) => state' = 0
       /\ (ControllerStep /\ state < Len(calibrationCoordinates))
             => (state' = state + 1 /\ AbsoluteMoves(cmds') = {} /\ wpc' = "af1")
       /\ (ControllerStep /\ state = Len(calibrationCoordinates))
             => /\ state' = 200 /\ wpc' = "af1"
                /\ cmds' = << <<"ABS", transform_matrix'[6][1], transform_matrix'[6][2]>> >>
       /\ (ControllerStep /\ state = 200) => (state' = 200 \/ ~InCall')
       /\ (InCall /\ InCall' /\ ~ControllerStep) => state' = state
       /\ InCall => state \in 0..Len(calibrationCoordinates) \cup {200}]_vars
C32_Witness ==
    /\ op = "step" /\ state = 200 /\ wpc = "af1"
    /\ camera_coordinates = Len(calibrationCoordinates) + 1
    /\ cmds = << <<"ABS", transform_matrix[6][1], transform_matrix[6][2]>> >>

\* C36: in detect-only mode (detection on, alignment off) a step of the
\* worker sends no command and asks the machine for nothing (the position
\* is not queried, toolCoordinates stays unbound), and leaves the transform
\* matrix, the state of the controller and the result collection as they
\* were
DetectOnlyStep ==
    /\ wpc \in {"det_loop", "af_det"} /\ detection_on /\ ~alignment
    /\ (wpc' # wpc \/ op' \in FrameOps \cup {"read_failed"})
C36_DetectOnlyTouchesNothing ==
    [][DetectOnlyStep
          => /\ cmds' = << >> /\ status' = status
             /\ toolCoordinates' = "unbound"
             /\ UNCHANGED << transform_matrix, mpp, state, calibrationResults >>]_vars
C36_Witness ==
    /\ wpc = "af_det" /\ op \in FrameOps /\ detection_on /\ ~alignment
    /\ nocircle > 0 /\ transform_matrix # Empty

\* C37: whenever calibrateTool is in state 200 the transform matrix and mpp
\* have values, and no step taken in state 200 changes either, also in a
\* call that starts in state 200 because an earlier call left a transform
C37_TransformAndMppInConverging ==
    [][/\ (InCall /\ state = 200) => (transform_matrix # Empty /\ mpp # Undef)
       /\ (InCall /\ state = 200 /\ InCall')
             => UNCHANGED << transform_matrix, mpp >>
       /\ (ControllerStep /\ state = 200) => UNCHANGED << transform_matrix, mpp >>
       /\ (op' = "calibrateTool" /\ state' = 200)
             => (transform_matrix' # Empty /\ mpp' # Undef
                   /\ UNCHANGED << transform_matrix, mpp >>)]_vars
C37_Witness ==
    /\ op = "step" /\ state = 200 /\ calibration_moves > 0
    /\ log # << >> /\ CountKind(log, "result") > 0
    /\ transform_matrix # Empty /\ mpp # Undef

\* ---- the averaging of calibrateTool ------------------------------------------------
\* The detections of one call of calibrateTool with average_location kept:
\* every return of analyzeFrame at line 896 is one action, the return at
\* line 912 another, and the steps of the controller are those of Spec.

\* np.around(n / d, 3) in thousandths, n in thousandths: a quotient half-way
\* between two thousandths has no exact double and may be rounded to either
RoundedQuotients(n, d) ==
    LET q == n \div d
        r == n % d
    IN  IF 2 * r < d THEN {q} ELSE IF 2 * r > d THEN {q + 1} ELSE {q, q + 1}

\* lines 899-900: the pixel is added to average_location
Accumulated(avg, p) == << avg[1] + 1000 * p[1], avg[2] + 1000 * p[2] >>

\* lines 896-910: analyzeFrame returns a detection, which is added to
\* average_location and counted; from the fifth on, average_location is
\* divided by the count and rounded, and the confirming detection is asked
\* for. Neither average_location nor detect_count is reset after a step
averagedDetection ==
    /\ wpc = "af1" /\ detect_count < MaxDetect
    /\ \E p \in Pixels :
          /\ xy' = p
          /\ detect_count' = detect_count + 1
          /\ detections' = detections + 1
          /\ LET total == Accumulated(average_location, p)
             IN  IF detect_count' >= position_iterations
                 THEN /\ average_location' \in
                            RoundedQuotients(total[1], detect_count') \X
                            RoundedQuotients(total[2], detect_count')
                      /\ wpc' = "af2"
                 ELSE /\ average_location' = total
                      /\ wpc' = "af1"
    /\ nocircle' = 0 /\ toolCoordinates' = "unbound"
    /\ op' = "frame1" /\ cmds' = << >> /\ frame_message' = "ts"
    /\ UNCHANGED << flag_vars, cap_open, transform_matrix, mpp, state,
                    space_coordinates, camera_coordinates, calibration_moves,
                    oldxy, offsetXY, transform_input, samples_identical,
                    displacement, loop_vars, status, gui_vars, signals,
                    hist_vars, det_vars >>
    /\ UNCHANGED << res_vars, calc, toolBox, detect_checked >>

\* line 912: one more detection; its pixel replaces self.xy, and the
\* controller step that follows reads self.xy
confirmingDetection ==
    /\ wpc = "af2"
    /\ \E p \in Pixels : xy' = p
    /\ wpc' = "step"
    /\ nocircle' = 0 /\ toolCoordinates' = "bound"
    /\ op' = "frame1" /\ cmds' = << >> /\ frame_message' = "ts"
    /\ UNCHANGED << flag_vars, cap_open, transform_matrix, mpp, state,
                    detect_count, detections,
                    space_coordinates, camera_coordinates, calibration_moves,
                    oldxy, offsetXY, transform_input, samples_identical,
                    displacement, loop_vars, status, gui_vars, signals,
                    hist_vars, det_vars >>
    /\ UNCHANGED << res_vars, calc, toolBox, detect_checked, average_location >>

\* what run has logged when it calls calibrateTool for the first tool of a
\* session, and for the second
LogAtFirstCall ==
    << <<"select", 0, 0>>, <<"cp_x", 0, 0>>, <<"cp_y", 0, 0>>, <<"cp_z", 0, 0>>,
       <<"idle", 0, 0>> >>
LogAtSecondCall ==
    LogAtFirstCall \o
    << <<"calibrate", 0, 0>>, <<"result", 0, 0>>, <<"g10", 0, 0>>,
       <<"select", 0, 1>>, <<"cp_x", 0, 1>>, <<"cp_y", 0, 1>>, <<"cp_z", 0, 1>>,
       <<"idle", 0, 1>> >>

\* run is about to call calibrateTool (line 659) in the first session after
\* the program started: for the first tool, with no transform yet, or for
\* the second tool, with the transform and the mpp the first call left
AverageInit ==
    /\ alignment = TRUE /\ detection_on = TRUE
    /\ display_crosshair = TRUE /\ running = TRUE
    /\ cap_open = TRUE
    /\ \/ /\ tool = 0 /\ num_tools \in 1..MaxTools
          /\ transform_matrix = Empty /\ mpp = Undef /\ transform_input = 0
          /\ signals = << >> /\ log = LogAtFirstCall
       \/ /\ tool = 1 /\ num_tools = 2
          /\ transform_matrix \in Transforms
          /\ mpp \in { MppOf(p, q) : p, q \in Pixels }
          /\ transform_input = Len(calibrationCoordinates) + 1
          /\ signals = << <<"result", 0, 0>> >> /\ log = LogAtSecondCall
    /\ state = 0
    /\ detect_count = 0 /\ space_coordinates = 0 /\ camera_coordinates = 0
    /\ calibration_moves = 0
    /\ xy = <<0, 0>> /\ oldxy = <<0, 0>>
    /\ offsetXY = <<0, 0>>
    /\ nocircle = 0 /\ toolCoordinates = "unbound"
    /\ wpc = "calibrateTool" /\ rep = 0
    /\ cycles \in 1..MaxCycles /\ self_cycles = cycles
    /\ status = "idle"
    /\ connected = TRUE
    /\ cp_coords = TRUE
    /\ calibration_button = FALSE /\ cp_button = FALSE /\ gpc = "idle"
    /\ stop_requested = FALSE
    /\ op = "idle_seen" /\ cmds = << >> /\ frame_message = "none"
    /\ loose = FALSE /\ detector_changed = FALSE
    /\ detect_minCircularity = default_minCircularity
    /\ detect_th = WorkerThresholds
    /\ detector = << WorkerThresholds, default_minCircularity >>
    /\ app_detect_th = AppThresholds /\ app_detector_changed = FALSE
    /\ samples_identical = TRUE
    /\ displacement = <<0, 0>> /\ detections = 0
    /\ calibrationResults = << >> /\ analysisMenu = FALSE
    /\ output_json = <<"none">> /\ stats_out = <<"none">>
    /\ toolBox = FALSE
    /\ detect_checked = FALSE /\ average_location = <<0, 0>>
    /\ calc = <<"none">>

AverageNext ==
    \/ calibrateToolInit \/ averagedDetection \/ confirmingDetection
    \/ cameraCalInit \/ cameraCalSweep \/ converge

AverageSpec == AverageInit /\ [][AverageNext]_vars

\* C31: the pixel a controller step uses is the average of the accumulated
\* detections: at every step self.xy, which the step records as sample,
\* takes mpp from and converts into the convergence offset, equals
\* average_location
C31_StepUsesAverage ==
    [][ControllerStep => << 1000 * xy[1], 1000 * xy[2] >> = average_location]_vars

\* ---- the modes of the program: connect, detect, align, disconnect ------------------
\* The handlers that switch between the modes, with the worker's run loop;
\* a pass of its loops over the tools is one step here (its steps are those
\* of Spec).

\* App.callTool, the slot of the tool buttons: refused while the machine
\* moves. The tool the machine reports as active (getCurrentTool, line 1870)
\* is the machine's state, which TAMV does not keep: active says whether the
\* button that was clicked is that tool, yes the answer to the question
callTool ==
    /\ gpc = "idle" /\ connected /\ toolBox
    /\ status = "idle"
    /\ \E active \in BOOLEAN, yes \in BOOLEAN, t \in 0..(num_tools - 1) :
          IF ~yes
          THEN /\ cmds' = << >>
               /\ UNCHANGED << alignment, calibration_button, cp_button >>
          ELSE IF active
          \* lines 1885-1904: unload
          THEN /\ cmds' = << <<"T", -1>>, <<"G1", "X">>, <<"G1", "Y">>, <<"G1", "Z">> >>
               /\ alignment' = FALSE
               /\ calibration_button' = TRUE /\ cp_button' = TRUE
          \* lines 1913-1938: load
          ELSE /\ cmds' = << <<"T", -1>>, <<"T", t>>, <<"G1", "X">>, <<"G1", "Y">>,
                             <<"G1", "Z">> >>
               /\ calibration_button' = FALSE /\ cp_button' = FALSE
               /\ UNCHANGED alignment
    /\ status' = StatusAfter(cmds')
    /\ op' = "callTool" /\ frame_message' = "none"
    /\ UNCHANGED << detection_on, display_crosshair, running, cap_open,
                    worker_vars, connected, num_tools, cycles, cp_coords, gpc,
                    signals, hist_vars, det_vars >>
    /\ UNCHANGED << res_vars, calc, toolBox, detect_checked, average_location >>

\* App.disconnectFromPrinter, lines 2285-2323: the buttons, alignment,
\* display_crosshair, the Detect box, and M400. Line 2315 assigns detect_on,
\* an attribute nothing reads: detection_on changes only if the box was
\* checked, through toggle_detect
disconnectFromPrinter ==
    /\ gpc = "idle" /\ connected
    /\ calibration_button' = FALSE /\ cp_button' = FALSE
    /\ toolBox' = FALSE
    /\ alignment' = FALSE
    /\ display_crosshair' = CrosshairAfterUncheck(FALSE)
    /\ detection_on' = IF detect_checked THEN ~detection_on ELSE detection_on
    /\ detect_checked' = FALSE
    /\ cmds' = << <<"M400">> >>
    /\ gpc' = "disconnect_unload"
    /\ op' = "disconnect" /\ frame_message' = "none"
    /\ UNCHANGED << running, cap_open, worker_vars, status, connected, num_tools,
                    cycles, cp_coords, signals, hist_vars, det_vars >>
    /\ UNCHANGED << res_vars, calc, average_location >>

\* lines 2324-2335: if the machine is idle the tool is unloaded and the
\* carriage returned to the controlled point, or to where it is
disconnectUnload ==
    /\ gpc = "disconnect_unload"
    /\ cmds' = IF status = "idle"
               THEN << <<"T", -1>>, <<"G1", "X">>, <<"G1", "Y">>, <<"G1", "Z">> >>
               ELSE << >>
    /\ status' = StatusAfter(cmds')
    /\ gpc' = "disconnect_reset"
    /\ op' = "disconnect" /\ frame_message' = "none"
    /\ UNCHANGED << flag_vars, cap_open, worker_vars, connected, num_tools,
                    cycles, cp_coords, calibration_button, cp_button, signals,
                    hist_vars, det_vars >>
    /\ UNCHANGED << res_vars, calc, toolBox, detect_checked, average_location >>

\* lines 2345-2364 and App.resetConnectInterface: printer = None, the
\* buttons, the Analyze menu, the boxes and the worker's flags; cp_coords is
\* kept
disconnectReset ==
    /\ gpc = "disconnect_reset"
    /\ connected' = FALSE
    /\ calibration_button' = FALSE /\ cp_button' = FALSE
    /\ analysisMenu' = FALSE
    /\ detect_checked' = FALSE
    /\ display_crosshair' = CrosshairAfterUncheck(display_crosshair)
    /\ detection_on' = FALSE /\ alignment' = FALSE
    /\ loose' = FALSE /\ detector_changed' = (detector_changed \/ loose)
    /\ toolBox' = FALSE
    /\ gpc' = "idle"
    /\ op' = "disconnect" /\ cmds' = << >> /\ frame_message' = "none"
    /\ UNCHANGED << running, cap_open, worker_vars, status, num_tools, cycles,
                    cp_coords, signals, hist_vars, detect_minCircularity,
                    detect_th, detector, app_detect_th, app_detector_changed >>
    /\ UNCHANGED << calibrationResults, output_json, stats_out, calc,
                    average_location >>

\* the places of run at which the next statement calls the machine
PrinterPcs == { "select", "unload" }

\* self.parent().printer is None after line 2345: the call on it raises
\* AttributeError, which reaches line 681
printerGone ==
    /\ ~connected /\ wpc \in PrinterPcs
    /\ SessionException
    /\ frame_message' = "none"
    /\ UNCHANGED det_vars
    /\ UNCHANGED << res_vars, calc, toolBox, detect_checked, average_location >>

\* lines 621-663: one pass of the loops of run as one step: the tool change,
\* the moves to the controlled point, the wait, the call of calibrateTool
\* (the transform and mpp are those of an earlier call or are found now,
\* result_update is emitted) and the G10; or an exception ends the pass and
\* the session, as the KeyError of line 628 does when cp_coords is empty
toolPass ==
    /\ wpc = "select" /\ connected
    /\ \/ /\ cp_coords /\ detection_on
          /\ IF transform_matrix = Empty
             THEN /\ transform_matrix' \in
                        least_square_mapping(<< Len(calibrationCoordinates) + 1, FALSE >>)
                  /\ \E p, q \in Pixels : mpp' = MppOf(p, q)
                  /\ transform_input' = Len(calibrationCoordinates) + 1
             ELSE UNCHANGED << transform_matrix, mpp, transform_input >>
          /\ cmds' = << <<"T", tool>>, <<"G1", "cp_x">>, <<"G1", "cp_y">>,
                        <<"G1", "cp_z">>, <<"M564">>, RelMove(<<0, 0>>),
                        <<"G10", tool>> >>
          /\ status' = StatusAfter(cmds')
          /\ Emit(<<"result", tool, rep>>)
          /\ LET next == NextPair(rep, tool)
             IN  IF next # << >>
                 THEN /\ rep' = next[1] /\ tool' = next[2] /\ wpc' = "select"
                      /\ UNCHANGED running
                 ELSE /\ running' = FALSE /\ wpc' = "while_running"
                      /\ LoopsLeft
          /\ op' = "g10"
          /\ UNCHANGED << alignment, detection_on, display_crosshair, cap_open,
                          state, detect_count, space_coordinates,
                          camera_coordinates, calibration_moves, xy, oldxy,
                          offsetXY, samples_identical, displacement, detections,
                          af_vars, self_cycles, gui_vars, hist_vars >>
       \/ SessionException
    /\ frame_message' = "none"
    /\ UNCHANGED det_vars
    /\ UNCHANGED << res_vars, calc, toolBox, detect_checked, average_location >>

\* lines 697-714: one pass of the detect-only loop as one step. The loop
\* tests _running and detection_on, never alignment. analyzeFrame comes back
\* with a detection if alignment is set (toolCoordinates was bound at line
\* 775, also when getCoords raised); without alignment its return at line
\* 857 raises on the unbound toolCoordinates, which ends the loop at line
\* 711; or it comes back because detection_on was cleared
detectPass ==
    /\ wpc = "det_loop"
    /\ IF running /\ detection_on
       THEN IF alignment
            THEN /\ wpc' = "det_loop" /\ cap_open' = TRUE
                 /\ op' = "frame1" /\ cmds' = << >>
                 /\ RuntimeChanges
                 /\ UNCHANGED << flag_vars, ct_vars, af_vars, loop_vars, status,
                                 gui_vars, signals, hist_vars >>
            ELSE /\ DetectException
                 /\ UNCHANGED det_vars
       ELSE /\ wpc' = "top"
            /\ op' = "other" /\ cmds' = << >>
            /\ UNCHANGED << flag_vars, cap_open, ct_vars, af_vars, loop_vars,
                            status, gui_vars, signals, hist_vars, det_vars >>
    /\ frame_message' = "none"
    /\ UNCHANGED << res_vars, calc, toolBox, detect_checked, average_location >>

ModeWorker ==
    \/ RunTop \/ RunBranch \/ WhileRunning \/ detectPass
    \/ toolPass \/ sessionCompletes \/ printerGone

ModeGui ==
    \/ connectToPrinter \/ controlledPoint \/ runCalibration \/ runCalibrationAlign
    \/ toggle_detect \/ callTool
    \/ disconnectFromPrinter \/ disconnectUnload \/ disconnectReset
    \/ addCalibrationResult \/ applyCalibration \/ updateStatusbar

ModeNext == ModeWorker \/ ModeGui \/ MachineIdle

ModeSpec == Init /\ [][ModeNext]_vars

\* C34: whenever no alignment session is active (no handler is running,
\* alignment is off and the worker is outside its session code),
\* display_crosshair equals detection_on and both equal the checked state of
\* the Detect ON box
C34_FlagsFollowDetectBox ==
    (gpc = "idle" /\ ~alignment /\ ~InSession /\ wpc # "branch")
       => (display_crosshair = detection_on /\ detection_on = detect_checked)

\* C35: the start button is enabled only when cp_coords is set, and
\* cp_coords is set whenever the worker is about to load a tool and move it
\* to the controlled point
C35_StartNeedsControlledPoint ==
    /\ calibration_button => cp_coords
    /\ wpc = "select" => cp_coords

\* C39: once disconnectFromPrinter has sent its M400, and until it has
\* finished, no step other than its own sends a move, a tool change or a G10
DisconnectPcs == { "disconnect_unload", "disconnect_reset" }
MovesOrOffsets(sent) ==
    \E i \in 1..Len(sent) : IsMotion(sent[i]) \/ sent[i][1] = "G10"
C39_NoWorkerMotionInDisconnect ==
    [][(gpc \in DisconnectPcs /\ gpc' = gpc) => ~MovesOrOffsets(cmds')]_vars

\* ModeSpec with the scheduling the program has: the worker thread keeps
\* running, the machine finishes its moves, the event loop delivers every
\* queued signal to its slot, and a handler that has started runs to its
\* end. Nothing obliges the user to click anything
ModeFairSpec ==
    /\ ModeSpec
    /\ WF_vars(RunTop) /\ WF_vars(RunBranch) /\ WF_vars(WhileRunning)
    /\ WF_vars(detectPass) /\ WF_vars(toolPass) /\ WF_vars(sessionCompletes)
    /\ WF_vars(printerGone)
    /\ WF_vars(MachineIdle)
    /\ WF_vars(addCalibrationResult) /\ WF_vars(applyCalibration)
    /\ WF_vars(updateStatusbar)
    /\ WF_vars(runCalibrationAlign)
    /\ WF_vars(disconnectUnload) /\ WF_vars(disconnectReset)

\* C33: once runCalibration has set detection_on and alignment, the worker
\* eventually begins the alignment session, whatever it was doing (unless
\* alignment is taken back first)
C33_AlignmentStartsSession ==
    (alignment /\ detection_on) ~> (op = "session_begin" \/ ~alignment)

\* C38: after a session has ended, by completion or by an exception, the
\* start button is eventually enabled again (unless the user disconnects)
SessionEnded == op = "complete" \/ (op \in AbortOps /\ ~detection_on /\ ~alignment)
C38_ReadyAgainAfterSession ==
    SessionEnded ~> (calibration_button \/ ~connected \/ gpc \in DisconnectPcs)

====
